---- MODULE Spec2Model ----
(***************************************************************************)
(* A model of reddit_persona.py: the text-to-attribute pipeline of         *)
(* RedditPersonaAnalyzer (extractors, classifiers, generate_persona_       *)
(* summary) and the control flow of analyze_user around it.                *)
(*                                                                         *)
(* Text is modelled by TLA+ strings, character by character: SubSeq, Len   *)
(* and \o act on them as Python's slicing, len and + do.  Regular          *)
(* expressions are data (records) run by a backtracking matcher that       *)
(* tries alternatives in Python's order, so re.search / re.finditer /      *)
(* re.sub return what the re module returns on the same text.              *)
(***************************************************************************)
EXTENDS Integers, Sequences, FiniteSets, TLC

(***************************************************************************)
(* Characters and strings                                                  *)
(***************************************************************************)
LowerLetters ==
  {"a","b","c","d","e","f","g","h","i","j","k","l","m",
   "n","o","p","q","r","s","t","u","v","w","x","y","z"}

UpperLetters ==
  {"A","B","C","D","E","F","G","H","I","J","K","L","M",
   "N","O","P","Q","R","S","T","U","V","W","X","Y","Z"}

Digits == {"0","1","2","3","4","5","6","7","8","9"}

Whitespace == {" ", "\t", "\n", "\r"}

Letters == LowerLetters \cup UpperLetters

WordChars == Letters \cup Digits \cup {"_"}

LowerSeq ==
  <<"a","b","c","d","e","f","g","h","i","j","k","l","m",
    "n","o","p","q","r","s","t","u","v","w","x","y","z">>

UpperSeq ==
  <<"A","B","C","D","E","F","G","H","I","J","K","L","M",
    "N","O","P","Q","R","S","T","U","V","W","X","Y","Z">>

LowerOf == [c \in UpperLetters |-> LowerSeq[CHOOSE k \in 1..26 : UpperSeq[k] = c]]

UpperOf == [c \in LowerLetters |-> UpperSeq[CHOOSE k \in 1..26 : LowerSeq[k] = c]]

\* str.lower() / str.upper() on one character
LowerChar(c) == IF c \in UpperLetters THEN LowerOf[c] ELSE c

UpperChar(c) == IF c \in LowerLetters THEN UpperOf[c] ELSE c

CharAt(s, i) == SubSeq(s, i, i)

Min(a, b) == IF a < b THEN a ELSE b

RECURSIVE LowerRange(_, _, _)
\* the characters a..b of s, lowercased (halving keeps the recursion shallow)
LowerRange(s, a, b) ==
  IF a > b THEN ""
  ELSE IF a = b THEN LowerChar(CharAt(s, a))
  ELSE LowerRange(s, a, (a + b) \div 2) \o LowerRange(s, (a + b) \div 2 + 1, b)

\* str.lower()
Lower(s) == LowerRange(s, 1, Len(s))

\* s[a:] and s[:n] of Python
Drop(s, a) == IF a >= Len(s) THEN "" ELSE SubSeq(s, a + 1, Len(s))

Take(s, n) == IF n >= Len(s) THEN s ELSE SubSeq(s, 1, n)

\* does sub occur in s at 0-based offset i
OccursAt(s, sub, i) ==
  /\ i + Len(sub) <= Len(s)
  /\ SubSeq(s, i + 1, i + Len(sub)) = sub

\* Python's `sub in s`
Contains(s, sub) == \E i \in 0..Len(s) : OccursAt(s, sub, i)

\* 0-based offset just after the last occurrence of sep in s, or -1
LastEnd(s, sep) ==
  LET hits == {i \in 0..Len(s) : OccursAt(s, sep, i)}
  IN  IF hits = {} THEN -1
      ELSE (CHOOSE i \in hits : \A j \in hits : j <= i) + Len(sep)

\* s.split(sep)[-1]
AfterLast(s, sep) == IF LastEnd(s, sep) = -1 THEN s ELSE Drop(s, LastEnd(s, sep))

\* len(s.split()): the number of maximal runs of non-whitespace characters
WordCount(s) ==
  Cardinality({i \in 1..Len(s) :
     /\ CharAt(s, i) \notin Whitespace
     /\ (i = 1 \/ CharAt(s, i - 1) \in Whitespace)})

RECURSIVE JoinRange(_, _, _)
\* " ".join(parts[a..b])
JoinRange(parts, a, b) ==
  IF a > b THEN ""
  ELSE IF a = b THEN parts[a]
  ELSE JoinRange(parts, a, (a + b) \div 2) \o " " \o
       JoinRange(parts, (a + b) \div 2 + 1, b)

\* " ".join(parts)
Join(parts) == JoinRange(parts, 1, Len(parts))

RECURSIVE DigitsValue(_, _)
DigitsValue(s, n) ==
  IF n = 0 THEN 0
  ELSE 10 * DigitsValue(s, n - 1) +
       (CHOOSE d \in 0..9 : ToString(d) = CharAt(s, n))

\* int(s) for a string of decimal digits
ToInt(s) == DigitsValue(s, Len(s))

\* str.isdigit()
IsDigits(s) == Len(s) > 0 /\ \A i \in 1..Len(s) : CharAt(s, i) \in Digits

(***************************************************************************)
(* Regular expressions (module re).  A pattern is a record; the matcher is *)
(* a backtracking machine: it takes the first alternative that lets the    *)
(* rest of the pattern match, greedy repetitions try one more iteration    *)
(* first, lazy ones try to stop first.  One capture group is tracked (no   *)
(* pattern of the program has more than one).                              *)
(*                                                                         *)
(* Every pattern node carries what the search needs to skip offsets where  *)
(* it cannot match: `first`, the characters it can start with (in either   *)
(* case), `any`, whether it can start with a character outside `first`,    *)
(* and `null`, whether it can match without consuming a character.         *)
(***************************************************************************)
CaseClosure(cs) == cs \cup {LowerChar(c) : c \in cs} \cup {UpperChar(c) : c \in cs}

Lit(s) ==
  [t |-> "lit", s |-> s, low |-> Lower(s),
   first |-> IF s = "" THEN {} ELSE CaseClosure({CharAt(s, 1)}),
   any |-> FALSE, null |-> s = ""]

\* a character class / a negated character class
In(cs) == [t |-> "in", cs |-> cs, first |-> CaseClosure(cs), any |-> FALSE, null |-> FALSE]

NotIn(cs) == [t |-> "notin", cs |-> cs, first |-> {}, any |-> TRUE, null |-> FALSE]

\* the nodes of a sequence that can hold its first character
Lead(rs) == {k \in 1..Len(rs) : \A j \in 1..(k - 1) : rs[j].null}

Cat(rs) ==
  [t |-> "cat", rs |-> rs,
   first |-> UNION {rs[k].first : k \in Lead(rs)},
   any |-> \E k \in Lead(rs) : rs[k].any,
   null |-> \A k \in 1..Len(rs) : rs[k].null]

Alt(rs) ==
  [t |-> "alt", rs |-> rs,
   first |-> UNION {rs[k].first : k \in 1..Len(rs)},
   any |-> \E k \in 1..Len(rs) : rs[k].any,
   null |-> \E k \in 1..Len(rs) : rs[k].null]

\* r{lo,hi}, greedy; hi = -1 is "no upper limit"
Rep(r, lo, hi) ==
  [t |-> "rep", r |-> r, lo |-> lo, hi |-> hi, n |-> 0, greedy |-> TRUE,
   first |-> r.first, any |-> r.any, null |-> r.null \/ lo = 0]

\* r{lo,hi}?, lazy
RepLazy(r, lo, hi) ==
  [t |-> "rep", r |-> r, lo |-> lo, hi |-> hi, n |-> 0, greedy |-> FALSE,
   first |-> r.first, any |-> r.any, null |-> r.null \/ lo = 0]

Opt(r) == Rep(r, 0, 1)

Star(r) == Rep(r, 0, -1)

Plus(r) == Rep(r, 1, -1)

\* ( ... ): the capture group
Grp(r) == [t |-> "grp", r |-> r, first |-> r.first, any |-> r.any, null |-> r.null]

\* \b, $
WordB == [t |-> "wb", first |-> {}, any |-> FALSE, null |-> TRUE]

EndS == [t |-> "end", first |-> {}, any |-> FALSE, null |-> TRUE]

\* \s \S \d \D \w \W and .
ReS == In(Whitespace)

ReNotS == NotIn(Whitespace)

ReD == In(Digits)

ReNotD == NotIn(Digits)

ReW == In(WordChars)

ReAny == NotIn({"\n"})

NoMatch == [ok |-> FALSE]

\* the text a pattern runs on: s itself, its case-folded form f that the
\* literals are compared with under re.IGNORECASE, and its length n
Text(s, ic) == [s |-> s, f |-> IF ic THEN Lower(s) ELSE s, ic |-> ic, n |-> Len(s)]

\* membership in a character class; under re.IGNORECASE a class holds a
\* letter as soon as it holds the letter in either case
ClassHas(ic, cs, c) ==
  c \in cs \/ (ic /\ (LowerChar(c) \in cs \/ UpperChar(c) \in cs))

IsWordAt(x, i) == i >= 1 /\ i <= x.n /\ CharAt(x.s, i) \in WordChars

\* does the character class node c accept the character after offset i
ClassAt(c, x, i) ==
  /\ i < x.n
  /\ ClassHas(x.ic, c.cs, CharAt(x.s, i + 1)) = (c.t = "in")

\* does the literal node r occur at offset i
LitAt(r, x, i) ==
  /\ i + Len(r.s) <= x.n
  /\ SubSeq(x.f, i + 1, i + Len(r.s)) = (IF x.ic THEN r.low ELSE r.s)

\* a necessary condition for pattern node a to match at offset i
MayStart(a, x, i) ==
  a.any \/ a.null \/ (i < x.n /\ CharAt(x.s, i + 1) \in a.first)

Least(S) == CHOOSE n \in S : \A k \in S : n <= k

RECURSIVE ClassRunBy(_, _, _, _, _)
\* the count once a block of `block` characters was walked and the
\* characters at `stops` of it were refused
ClassRunOf(stops, block, room, c, x, i, most, step) ==
  IF stops # {} THEN Least(stops)
  ELSE IF block = room THEN block
  ELSE block + ClassRunBy(c, x, i + block,
                          IF most = -1 THEN -1 ELSE most - block, 2 * step)

\* the characters left to walk from offset i when at most `most` count
Room(x, i, most) == IF most = -1 \/ x.n - i < most THEN x.n - i ELSE most

\* the number of consecutive characters from offset i that class c accepts,
\* counted up to `most` (-1: no limit); the text is walked in blocks of
\* doubling size `step`
ClassRunBy(c, x, i, most, step) ==
  ClassRunOf({n \in 0..(Min(Room(x, i, most), step) - 1) : ~ClassAt(c, x, i + n)},
             Min(Room(x, i, most), step), Room(x, i, most), c, x, i, most, step)

ClassRun(c, x, i, most) == ClassRunBy(c, x, i, most, 2)

\* The machine's state: the stack `stk` of pattern nodes still to match, the
\* offset i reached, the capture group's bounds, and the choice points `bt`
\* (newest first), each the state to resume from when the current attempt
\* fails.
Save(st, stk) ==
  <<[stk |-> stk, i |-> st.i, gs |-> st.gs, ge |-> st.ge]>> \o st.bt

\* the current attempt failed: resume the newest choice point, if any
Fail(st) ==
  IF st.bt = <<>> THEN [st EXCEPT !.status = "fail"]
  ELSE [stk |-> st.bt[1].stk, i |-> st.bt[1].i, gs |-> st.bt[1].gs,
        ge |-> st.bt[1].ge, bt |-> Tail(st.bt), status |-> "run"]

\* an alternation: the first alternative first, the others wait in a choice
\* point (`live`: the alternatives that can start here)
AltStep(live, rest, st) ==
  IF live = <<>> THEN Fail(st)
  ELSE [st EXCEPT
          !.stk = <<Head(live)>> \o rest,
          !.bt  = IF Len(live) > 1
                  THEN Save(st, <<[t |-> "alt", rs |-> Tail(live)]>> \o rest)
                  ELSE @]

\* a repeated character class takes a run of lo..top characters: the longest
\* first when greedy, the shortest first when lazy
RunStep(top, r, rest, st) ==
  IF top < r.lo THEN Fail(st)
  ELSE [st EXCEPT !.stk =
          <<[t |-> "take", n |-> IF r.greedy THEN top ELSE r.lo,
             lo |-> r.lo, hi |-> top, greedy |-> r.greedy]>> \o rest]

\* the run length to try after r.n
TakeNext(r) == IF r.greedy THEN r.n - 1 ELSE r.n + 1

TakeStep(r, rest, st) ==
  [st EXCEPT
     !.stk = rest,
     !.i   = @ + r.n,
     !.bt  = IF TakeNext(r) >= r.lo /\ TakeNext(r) <= r.hi
             THEN Save(st, <<[r EXCEPT !.n = TakeNext(r)]>> \o rest)
             ELSE @]

\* one more iteration of the repetition r, which has to consume something
OneMore(r, rest, st) ==
  <<r.r, [t |-> "mark", at |-> st.i], [r EXCEPT !.n = @ + 1]>> \o rest

CanMore(r) == r.hi = -1 \/ r.n < r.hi

RepStep(r, rest, st) ==
  IF r.greedy
  THEN IF CanMore(r)
       THEN [st EXCEPT !.stk = OneMore(r, rest, st),
                       !.bt  = IF r.n >= r.lo THEN Save(st, rest) ELSE @]
       ELSE IF r.n >= r.lo THEN [st EXCEPT !.stk = rest] ELSE Fail(st)
  ELSE IF r.n >= r.lo
       THEN [st EXCEPT !.stk = rest,
                       !.bt  = IF CanMore(r) THEN Save(st, OneMore(r, rest, st))
                               ELSE @]
       ELSE IF CanMore(r) THEN [st EXCEPT !.stk = OneMore(r, rest, st)]
            ELSE Fail(st)

\* one step of the machine on text x: the node r on top of the stack
NodeStep(r, rest, x, st) ==
  CASE r.t = "lit" ->
         IF LitAt(r, x, st.i)
         THEN [st EXCEPT !.stk = rest, !.i = @ + Len(r.s)]
         ELSE Fail(st)
    [] r.t \in {"in", "notin"} ->
         IF ClassAt(r, x, st.i)
         THEN [st EXCEPT !.stk = rest, !.i = @ + 1]
         ELSE Fail(st)
    [] r.t = "cat" -> [st EXCEPT !.stk = r.rs \o rest]
    [] r.t = "alt" ->
         AltStep(SelectSeq(r.rs, LAMBDA a : MayStart(a, x, st.i)), rest, st)
    [] r.t = "rep" /\ r.r.t \in {"in", "notin"} ->
         RunStep(ClassRun(r.r, x, st.i, r.hi), r, rest, st)
    [] r.t = "take" -> TakeStep(r, rest, st)
    [] r.t = "rep" -> RepStep(r, rest, st)
    [] r.t = "mark" ->
         IF st.i > r.at THEN [st EXCEPT !.stk = rest] ELSE Fail(st)
    [] r.t = "grp" ->
         [st EXCEPT !.stk = <<[t |-> "gs"], r.r, [t |-> "ge"]>> \o rest]
    [] r.t = "gs" -> [st EXCEPT !.stk = rest, !.gs = st.i]
    [] r.t = "ge" -> [st EXCEPT !.stk = rest, !.ge = st.i]
    [] r.t = "wb" ->
         IF IsWordAt(x, st.i) # IsWordAt(x, st.i + 1)
         THEN [st EXCEPT !.stk = rest] ELSE Fail(st)
    \* $ matches at the end and just before a final newline
    [] r.t = "end" ->
         IF \/ st.i = x.n
            \/ (st.i = x.n - 1 /\ CharAt(x.s, x.n) = "\n")
         THEN [st EXCEPT !.stk = rest] ELSE Fail(st)

Step(x, st) ==
  IF st.stk = <<>> THEN [st EXCEPT !.status = "ok"]
  ELSE NodeStep(Head(st.stk), Tail(st.stk), x, st)

\* the machine gives up after about 2^(MatchFuel + 1) steps
MatchFuel == 16

RECURSIVE Steps(_, _, _)
\* up to 2^k steps from st, stopping at a final state
Steps(k, x, st) ==
  IF st.status # "run" THEN st
  ELSE IF k = 0 THEN Step(x, st)
  ELSE Steps(k - 1, x, Steps(k - 1, x, st))

RECURSIVE Climb(_, _, _)
\* run from st to a final state: 1 step, then 2, then 4, ...
Climb(k, x, st) ==
  IF st.status # "run" \/ k > MatchFuel THEN st
  ELSE Climb(k + 1, x, Steps(k, x, st))

\* the match a final state of the machine stands for
Located(end, from) ==
  CASE end.status = "ok" ->
         [ok |-> TRUE, b |-> from, e |-> end.i, gs |-> end.gs, ge |-> end.ge]
    [] end.status = "fail" -> NoMatch

\* a match of r on text x that starts exactly at offset `from`
MatchFrom(r, x, from) ==
  Located(Climb(0, x, [stk |-> <<r>>, i |-> from, gs |-> -1, ge |-> -1,
                       bt |-> <<>>, status |-> "run"]),
          from)

\* pattern.match(s, pos)
MatchAt(r, s, ic, from) == MatchFrom(r, Text(s, ic), from)

\* the start offsets are tried a block at a time, leftmost block first,
\* in blocks of doubling size
SearchBlockSize == 16

BlockEnd(x, from, size) == Min(from + size - 1, x.n)

RECURSIVE SearchBlock(_, _, _, _)
\* the leftmost of the matches found in a block, else the search goes on
LeftmostOr(hits, r, x, last, size) ==
  IF hits # {} THEN CHOOSE m \in hits : \A n \in hits : m.b <= n.b
  ELSE IF last >= x.n THEN NoMatch
  ELSE SearchBlock(r, x, last + 1, 2 * size)

SearchBlock(r, x, from, size) ==
  LeftmostOr({m \in {MatchFrom(r, x, b) :
                       b \in {c \in from..BlockEnd(x, from, size) :
                                MayStart(r, x, c)}} : m.ok},
             r, x, BlockEnd(x, from, size), size)

\* pattern.search(s, pos): the leftmost match at or after offset `from`
SearchFrom(r, x, from) == SearchBlock(r, x, from, SearchBlockSize)

\* re.search(pattern, s, flags)
Search(r, s, ic) == SearchFrom(r, Text(s, ic), 0)

\* match.group(1); None is modelled by ""
Group1(s, m) == IF m.gs = -1 \/ m.ge = -1 THEN "" ELSE SubSeq(s, m.gs + 1, m.ge)

\* match.group(0)
Group0(s, m) == SubSeq(s, m.b + 1, m.e)

RECURSIVE FindAllFrom(_, _, _)
\* the matches that follow the match m
FindAllAfter(m, r, x) ==
  IF ~m.ok THEN <<>>
  ELSE <<m>> \o FindAllFrom(r, x, IF m.e > m.b THEN m.e ELSE m.e + 1)

FindAllFrom(r, x, from) ==
  IF from > x.n THEN <<>> ELSE FindAllAfter(SearchFrom(r, x, from), r, x)

\* list(re.finditer(pattern, s, flags)): non-overlapping matches, left to right
FindAll(r, s, ic) == FindAllFrom(r, Text(s, ic), 0)

\* re.sub is a scan: st.out is the text built so far, st.from the offset the
\* next search starts at.  One move of the scan, m being the next match:
SubMove(m, repl, x, st) ==
  IF ~m.ok
  THEN [from |-> x.n, out |-> st.out \o Drop(x.s, st.from), done |-> TRUE]
  ELSE IF m.e > m.b
  THEN [from |-> m.e, done |-> FALSE,
        out |-> st.out \o SubSeq(x.s, st.from + 1, m.b) \o repl]
  ELSE IF m.e < x.n
  THEN [from |-> m.e + 1, done |-> FALSE,
        out |-> st.out \o SubSeq(x.s, st.from + 1, m.b) \o repl
                \o CharAt(x.s, m.e + 1)]
  ELSE [from |-> x.n, done |-> TRUE,
        out |-> st.out \o SubSeq(x.s, st.from + 1, m.b) \o repl]

SubStep(r, repl, x, st) == SubMove(SearchFrom(r, x, st.from), repl, x, st)

RECURSIVE SubSteps(_, _, _, _, _)
\* up to 2^k moves of the scan
SubSteps(k, r, repl, x, st) ==
  IF st.done THEN st
  ELSE IF k = 0 THEN SubStep(r, repl, x, st)
  ELSE SubSteps(k - 1, r, repl, x, SubSteps(k - 1, r, repl, x, st))

RECURSIVE SubClimb(_, _, _, _, _)
SubClimb(k, r, repl, x, st) ==
  IF st.done THEN st
  ELSE SubClimb(k + 1, r, repl, x, SubSteps(k, r, repl, x, st))

\* re.sub(pattern, repl, s), without flags
Sub(r, repl, s) ==
  SubClimb(0, r, repl, Text(s, FALSE), [from |-> 0, out |-> "", done |-> FALSE]).out

\* re.sub(pattern, '', s)
Remove(r, s) == Sub(r, "", s)

\* str.strip()
Strip(s) ==
  LET keep == {i \in 1..Len(s) : CharAt(s, i) \notin Whitespace}
  IN  IF keep = {} THEN ""
      ELSE SubSeq(s, CHOOSE i \in keep : \A j \in keep : i <= j,
                     CHOOSE i \in keep : \A j \in keep : j <= i)

RECURSIVE TitleRange(_, _, _)
\* str.title() on the characters a..b: a letter that follows a non-letter is
\* put in upper case, every other letter in lower case
TitleRange(s, a, b) ==
  IF a > b THEN ""
  ELSE IF a = b
       THEN IF a = 1 \/ CharAt(s, a - 1) \notin Letters
            THEN UpperChar(CharAt(s, a)) ELSE LowerChar(CharAt(s, a))
  ELSE TitleRange(s, a, (a + b) \div 2) \o TitleRange(s, (a + b) \div 2 + 1, b)

Title(s) == TitleRange(s, 1, Len(s))

(***************************************************************************)
(* extract_personal_info: the fragments and their cleaning                 *)
(***************************************************************************)
NotSpecified == "Not specified"

\* the first entry of vals, in list order, that differs from none (the
\* loops that stop at the first hit); none when there is no such entry
FirstOther(vals, none) ==
  IF \A k \in 1..Len(vals) : vals[k] = none THEN none
  ELSE vals[CHOOSE k \in 1..Len(vals) :
              vals[k] # none /\ \A j \in 1..(k - 1) : vals[j] = none]

\* post.get('title', '') + ' ' + post.get('selftext', '')
PostText(p) == p.title \o " " \o p.selftext

\* the combined text blob of generate_persona_summary / analyze_user
AllText(comments, posts) ==
  Join([k \in 1..(Len(comments) + Len(posts)) |->
          IF k <= Len(comments) THEN comments[k].body
          ELSE PostText(posts[k - Len(comments)])])

\* all_content = [text] + comment bodies + post title/selftext strings
AllContent(text, comments, posts) ==
  <<text>> \o
  [k \in 1..(Len(comments) + Len(posts)) |->
     IF k <= Len(comments) THEN comments[k].body
     ELSE PostText(posts[k - Len(comments)])]

\* r'\[.*?\]\(.*?\)'
MarkdownLinkRe ==
  Cat(<<Lit("["), RepLazy(ReAny, 0, -1), Lit("]"),
        Lit("("), RepLazy(ReAny, 0, -1), Lit(")")>>)

\* r'http\S+'
UrlRe == Cat(<<Lit("http"), Plus(ReNotS)>>)

\* the two re.sub calls that open every scan of a fragment
CleanContent(content) == Remove(UrlRe, Remove(MarkdownLinkRe, content))

(***************************************************************************)
(* extract_personal_info: age                                              *)
(***************************************************************************)
MinAge == 13

MaxAge == 100

MinBirthYear == 1900

\* (?:years?\s*old|y\/o|yo|y\.o\.)
AgeUnitRe ==
  Alt(<<Cat(<<Lit("year"), Opt(Lit("s")), Star(ReS), Lit("old")>>),
        Lit("y/o"), Lit("yo"), Lit("y.o.")>>)

\* (?:years?\s*old|y\/o|yo|y\.o\.|\b)
AgeUnitOrBoundaryRe ==
  Alt(<<Cat(<<Lit("year"), Opt(Lit("s")), Star(ReS), Lit("old")>>),
        Lit("y/o"), Lit("yo"), Lit("y.o."), WordB>>)

\* (\d{1,2})
TwoDigitsRe == Grp(Rep(ReD, 1, 2))

\* age_patterns, in list order (the typographic apostrophe of the first
\* pattern's character class is not in the alphabet of the modelled texts)
age_patterns ==
  << Cat(<<Alt(<<Cat(<<Lit("i"), In({"'"}), Lit("m")>>), Lit("i am"),
                 Lit("age is"), Lit("aged"), Lit("turning")>>),
           Plus(ReS), TwoDigitsRe, Star(ReS), AgeUnitOrBoundaryRe>>),
     Cat(<<Alt(<<Lit("age"), Lit("aged")>>),
           Plus(ReS), TwoDigitsRe, Star(ReS), AgeUnitOrBoundaryRe>>),
     Cat(<<TwoDigitsRe, Star(ReS), AgeUnitRe,
           Alt(<<WordB, NotIn(WordChars), EndS>>)>>),
     Cat(<<Lit("born "), Opt(Alt(<<Lit("in"), Lit("on"), Plus(ReW)>>)),
           Star(ReS), Opt(Lit("the year ")), Opt(Lit("of ")),
           Grp(Alt(<<Cat(<<Lit("19"), Rep(ReD, 2, 2)>>),
                     Cat(<<Lit("20"), In({"0", "1"}), ReD>>)>>)),
           Alt(<<ReNotD, EndS>>)>>),
     Cat(<<Alt(<<Lit("turned"), Lit("when i was"), Lit("since i was"),
                 Lit("since age"), Lit("age")>>),
           Plus(ReS), TwoDigitsRe, WordB>>) >>

\* 13 <= int(age) <= 100
ReasonableAge(n) == MinAge <= n /\ n <= MaxAge

\* the age one successful pattern match yields: the string kept in `age`, or
\* "" for None (lines 480-492; the program's patterns have one group, so
\* the len(match.groups()) > 1 branch is never taken)
AgeOfMatch(g, current_year) ==
  IF IsDigits(g) /\ ReasonableAge(ToInt(g)) THEN g
  ELSE IF /\ IsDigits(g) /\ Len(g) = 4
          /\ MinBirthYear <= ToInt(g) /\ ToInt(g) <= current_year
       THEN ToString(current_year - ToInt(g))
       ELSE ""

\* an age is stored whenever one was computed
AgeAcceptedUnchecked(age) == age # ""

\* line 494: the final range check on the age about to be stored
AgeAccepted(age) == age # "" /\ ReasonableAge(ToInt(age))

\* line 494-496: the field an age gives
AgeField(age) == IF AgeAccepted(age) THEN age \o " years old" ELSE NotSpecified

\* what the match m of one pattern on a cleaned fragment gives
AgeOfSearch(m, clean, current_year) ==
  IF m.ok THEN AgeField(AgeOfMatch(Group1(clean, m), current_year))
  ELSE NotSpecified

\* the inner `for pattern in age_patterns` loop on one cleaned fragment: the
\* first pattern whose match gives an accepted age
AgeInFragment(clean, current_year) ==
  FirstOther([k \in 1..Len(age_patterns) |->
                AgeOfSearch(Search(age_patterns[k], clean, TRUE), clean,
                            current_year)],
             NotSpecified)

\* the outer `for content in all_content` loop: the result of the first
\* fragment, in list order, that yields an age
ExtractAge(all_content, current_year) ==
  FirstOther([k \in 1..Len(all_content) |->
                AgeInFragment(CleanContent(all_content[k]), current_year)],
             NotSpecified)

(***************************************************************************)
(* extract_personal_info: location                                         *)
(***************************************************************************)
\* len(content) < 30: fragments this short are skipped for location and
\* occupation
MinContentLen == 30

location_indicators ==
  <<"i live in", "i'm from", "i am from", "based in", "located in",
    "hometown", "currently in", "living in", "reside in", "based out of">>

common_locations ==
  <<"Alabama", "Alaska", "Arizona", "Arkansas", "California", "Colorado",
    "Connecticut", "Delaware", "Florida", "Georgia", "Hawaii", "Idaho",
    "Illinois", "Indiana", "Iowa", "Kansas", "Kentucky", "Louisiana", "Maine",
    "Maryland", "Massachusetts", "Michigan", "Minnesota", "Mississippi",
    "Missouri", "Montana", "Nebraska", "Nevada", "New Hampshire", "New Jersey",
    "New Mexico", "New York", "North Carolina", "North Dakota", "Ohio",
    "Oklahoma", "Oregon", "Pennsylvania", "Rhode Island", "South Carolina",
    "South Dakota", "Tennessee", "Texas", "Utah", "Vermont", "Virginia",
    "Washington", "West Virginia", "Wisconsin", "Wyoming",
    "United States", "Canada", "United Kingdom", "Australia", "Germany",
    "France", "Japan", "China", "India", "Brazil", "Mexico", "Italy", "Spain",
    "Russia", "South Korea">>

\* the words that disqualify a candidate location
location_stopwords ==
  <<"reddit", "internet", "online", "web", "here", "today",
    "yesterday", "tomorrow", "this", "that", "there">>

Lits(strs) == [k \in 1..Len(strs) |-> Lit(strs[k])]

\* [A-Z], [a-z], [A-Za-z\s]
ReUpper == In(UpperLetters)

ReLower == In(LowerLetters)

ReAlphaSpace == In(Letters \cup Whitespace)

location_patterns ==
  << \* (?:indicators)\s+([A-Z][A-Za-z\s]{2,}(?:,\s*[A-Z][A-Za-z\s]+)*)
     Cat(<<Alt(Lits(location_indicators)), Plus(ReS),
           Grp(Cat(<<ReUpper, Rep(ReAlphaSpace, 2, -1),
                     Star(Cat(<<Lit(","), Star(ReS), ReUpper,
                                Plus(ReAlphaSpace)>>))>>))>>),
     \* in\s+([A-Z][A-Za-z\s]+(?:,\s*(?:[A-Z][a-z]+\s*)+)?)
     Cat(<<Lit("in"), Plus(ReS),
           Grp(Cat(<<ReUpper, Plus(ReAlphaSpace),
                     Opt(Cat(<<Lit(","), Star(ReS),
                               Plus(Cat(<<ReUpper, Plus(ReLower),
                                          Star(ReS)>>))>>))>>))>>),
     \* from\s+([A-Z][A-Za-z\s]+(?:,\s*[A-Za-z\s]+)*)
     Cat(<<Lit("from"), Plus(ReS),
           Grp(Cat(<<ReUpper, Plus(ReAlphaSpace),
                     Star(Cat(<<Lit(","), Star(ReS),
                                Plus(ReAlphaSpace)>>))>>))>>),
     \* \b(common locations)\b
     Cat(<<WordB, Grp(Alt(Lits(common_locations))), WordB>>) >>

\* ^[A-Z][a-z]+(?:\s+[A-Z][a-z]+)*(?:,\s*[A-Z][a-z]+)?$  (case-sensitive)
LocationShapeRe ==
  Cat(<<ReUpper, Plus(ReLower),
        Star(Cat(<<Plus(ReS), ReUpper, Plus(ReLower)>>)),
        Opt(Cat(<<Lit(","), Star(ReS), ReUpper, Plus(ReLower)>>)),
        EndS>>)

\* lines 553-568: is the captured text of one match kept as the location
LocationAccepted(location) ==
  /\ Len(location) >= 3
  /\ ~\E k \in 1..Len(location_stopwords) :
        Contains(Lower(location), location_stopwords[k])
  /\ \/ \E k \in 1..Len(common_locations) :
          Lower(common_locations[k]) = Lower(location)
     \/ MatchAt(LocationShapeRe, location, FALSE, 0).ok

\* match.group(1).strip() if match.lastindex else match.group(0).strip()
Captured(s, m) == Strip(IF m.gs # -1 THEN Group1(s, m) ELSE Group0(s, m))

\* the field a captured text gives
LocationField(location) ==
  IF LocationAccepted(location) THEN location ELSE NotSpecified

\* the matches ms of one pattern on one cleaned fragment, in order: the
\* first accepted capture, or NotSpecified
LocationOfMatches(clean, ms) ==
  FirstOther([k \in 1..Len(ms) |-> LocationField(Captured(clean, ms[k]))],
             NotSpecified)

\* the `for pattern in location_patterns` loop on one cleaned fragment
LocationByPatterns(clean) ==
  FirstOther([k \in 1..Len(location_patterns) |->
                LocationOfMatches(clean,
                                  FindAll(location_patterns[k], clean, TRUE))],
             NotSpecified)

LocationInFragment(content) ==
  IF Len(content) < MinContentLen THEN NotSpecified
  ELSE LocationByPatterns(CleanContent(content))

\* the `for content in all_content` loop: first fragment with a location
ExtractLocation(all_content) ==
  FirstOther([k \in 1..Len(all_content) |-> LocationInFragment(all_content[k])],
             NotSpecified)

(***************************************************************************)
(* extract_personal_info: occupation                                       *)
(***************************************************************************)
\* [a-z\s-]+
ReJobChars == Plus(In(LowerLetters \cup Whitespace \cup {"-"}))

\* \s+word
SpWord(w) == Cat(<<Plus(ReS), Lit(w)>>)

\* i(?:\'?m| am| <verb>...)  without the trailing "?"
IAm(others) ==
  Cat(<<Lit("i"),
        Alt(<<Cat(<<Opt(Lit("'")), Lit("m")>>), Lit(" am")>> \o Lits(others))>>)

\* i(?:\'?m| am| <verb>...)?
IAmOpt(others) ==
  Cat(<<Lit("i"),
        Opt(Alt(<<Cat(<<Opt(Lit("'")), Lit("m")>>), Lit(" am")>> \o Lits(others)))>>)

\* [a-z\s-]+(?:\s+at\s+[a-z\s-]+)?
ReJobAt ==
  Cat(<<ReJobChars, Opt(Cat(<<Plus(ReS), Lit("at"), Plus(ReS), ReJobChars>>))>>)

occupation_indicators ==
  << \* work-related phrases
     Cat(<<IAmOpt(<<"'ve been">>), Plus(ReS),
           Opt(Cat(<<Lit("working"), Plus(ReS)>>)),
           Alt(Lits(<<"as", "at", "in">>)), Plus(ReS), Grp(ReJobAt)>>),
     Cat(<<Lit("my"), Plus(ReS), Opt(Cat(<<Lit("current"), Plus(ReS)>>)),
           Alt(Lits(<<"job", "profession", "occupation", "role", "position",
                      "title">>)),
           Alt(<<SpWord("is"), Lit(":")>>), Plus(ReS), Grp(ReJobChars)>>),
     Cat(<<IAmOpt(<<" work">>), Plus(ReS),
           Opt(Alt(Lits(<<"a", "an", "the">>))), Star(ReS),
           Grp(Cat(<<ReJobChars,
                     Opt(Cat(<<Plus(ReS), Lit("by"), Plus(ReS), ReJobChars>>))>>)),
           Alt(<<Cat(<<Plus(ReS), Lit("by"), Plus(ReS), Lit("profession")>>),
                 Cat(<<Plus(ReS), Lit("by"), Plus(ReS), Lit("trade")>>),
                 SpWord("here"), SpWord("myself")>>)>>),
     \* education-related
     Cat(<<Lit("i"),
           Alt(<<Cat(<<Opt(Lit("'")), Lit("m")>>), Lit(" am"), Lit(" study"),
                 Lit("'m studying"), Lit(" study"),
                 Cat(<<Lit("major"), Opt(Lit("ing")), Lit(" in")>>),
                 Lit("majored in"),
                 Cat(<<Lit("pursuing"), Opt(Lit(" a degree in"))>>)>>),
           Plus(ReS), Grp(ReJobAt)>>),
     Cat(<<IAmOpt(<<" was">>), Plus(ReS), Lit("a"), Opt(Lit("n")), Plus(ReS),
           Grp(Cat(<<ReJobChars,
                     Alt(<<Cat(<<SpWord("student"), WordB>>),
                           Cat(<<SpWord("at"), WordB>>),
                           Cat(<<SpWord("in"), WordB>>),
                           Cat(<<SpWord("studying"), WordB>>)>>)>>))>>),
     \* industry-specific
     Cat(<<IAmOpt(<<" work">>), Plus(ReS), Lit("in"), Plus(ReS),
           Opt(Cat(<<Lit("the"), Plus(ReS)>>)),
           Grp(Cat(<<ReJobChars,
                     Alt(<<SpWord("industry"), SpWord("field"),
                           SpWord("sector"), SpWord("area")>>)>>))>>),
     \* self-employed / entrepreneur
     Cat(<<IAmOpt(<<" run">>), Plus(ReS),
           Opt(Alt(Lits(<<"a", "an", "my", "the">>))), Star(ReS),
           Grp(Cat(<<ReJobChars,
                     Alt(<<SpWord("business"), SpWord("company"),
                           SpWord("startup"), SpWord("venture"),
                           SpWord("shop")>>)>>))>>),
     Cat(<<IAmOpt(<<" own", " operate">>), Plus(ReS),
           Opt(Alt(Lits(<<"a", "an", "my", "the">>))), Star(ReS),
           Grp(Cat(<<ReJobChars,
                     Alt(<<SpWord("store"), SpWord("shop"),
                           SpWord("service")>>)>>))>>),
     \* freelance / contract work
     Cat(<<IAmOpt(<<>>), Plus(ReS), Opt(Alt(Lits(<<"a", "an">>))), Star(ReS),
           Grp(Cat(<<ReJobChars,
                     Alt(<<Cat(<<SpWord("freelance"), Star(ReW)>>),
                           SpWord("contractor"), SpWord("consultant")>>)>>))>>),
     \* retired / unemployed
     Grp(Cat(<<IAm(<<>>), Plus(ReS), Opt(Cat(<<Lit("a"), Plus(ReS)>>)),
               Alt(Lits(<<"retired", "unemployed", "between jobs",
                          "looking for work", "job hunting",
                          "seeking employment">>))>>)),
     \* generic fallback
     Cat(<<IAmOpt(<<" work">>), Plus(ReS), Opt(Cat(<<Lit("as"), Plus(ReS)>>)),
           Grp(ReJobAt)>>) >>

common_occupations ==
  <<"engineer", "developer", "programmer", "designer", "analyst", "manager",
    "director", "executive", "consultant", "architect", "scientist",
    "researcher", "professor", "teacher", "instructor", "lawyer", "attorney",
    "doctor", "physician", "nurse", "therapist", "counselor", "accountant",
    "marketer", "specialist", "strategist", "planner", "coordinator",
    "administrator",
    "technician", "mechanic", "electrician", "plumber", "carpenter",
    "contractor", "builder", "chef", "cook", "baker", "bartender", "server",
    "waiter", "waitress", "barista", "driver", "operator", "laborer",
    "factory worker", "warehouse worker", "delivery driver",
    "artist", "writer", "author", "musician", "actor", "actress", "performer",
    "photographer", "filmmaker", "producer", "editor", "journalist",
    "reporter", "blogger", "influencer",
    "sales", "retail", "cashier", "customer service", "receptionist",
    "assistant", "secretary", "hairdresser", "stylist", "esthetician",
    "masseuse", "trainer", "coach", "instructor",
    "student", "researcher", "scientist", "analyst", "entrepreneur",
    "business owner", "freelancer", "consultant", "contractor",
    "self-employed", "retired", "unemployed", "homemaker", "parent">>

\* the pronouns whose occurrence (as a substring) disqualifies a job title
occupation_pronouns == <<"i", "me", "my", "you", "your", "we", "us", "our">>

\* [^\w\s], \s+, ^[^a-z]+, \b(?:a|an|the|my|at|in|for|with|and|or|but)\b
SpecialCharRe == NotIn(WordChars \cup Whitespace)

SpacesRe == Plus(ReS)

LeadingNonLettersRe == Plus(NotIn(LowerLetters))

FillerWordRe ==
  Cat(<<WordB,
        Alt(Lits(<<"a", "an", "the", "my", "at", "in", "for", "with", "and",
                   "or", "but">>)),
        WordB>>)

\* ^[a-z]+(?:\s+[a-z]+){0,3}$
JobTitleShapeRe ==
  Cat(<<Plus(ReLower), Rep(Cat(<<Plus(ReS), Plus(ReLower)>>), 0, 3), EndS>>)

\* lines 628-632: the cleaning of a fragment before the occupation patterns
OccupationClean(content) ==
  Lower(Strip(Sub(SpacesRe, " ", Sub(SpecialCharRe, " ", CleanContent(content)))))

\* s without the text of the match m, which starts s
DropMatch(s, m) == IF m.ok THEN Drop(s, m.e) ELSE s

\* re.sub(r'^[^a-z]+', '', s): only a match at offset 0 is replaced
DropLeadingNonLetters(s) ==
  DropMatch(s, MatchAt(LeadingNonLettersRe, s, FALSE, 0))

\* lines 641-643: the clean-up of a captured occupation
OccupationTidy(captured) ==
  Strip(Sub(SpacesRe, " ", Sub(FillerWordRe, "", DropLeadingNonLetters(captured))))

\* lines 646-658: is the tidied capture kept as the occupation
OccupationAccepted(occupation) ==
  /\ ~(Len(occupation) < 3 \/ WordCount(occupation) > 5)
  /\ \/ \E k \in 1..Len(common_occupations) :
          Contains(occupation, common_occupations[k])
     \/ /\ MatchAt(JobTitleShapeRe, occupation, FALSE, 0).ok
        /\ ~\E k \in 1..Len(occupation_pronouns) :
              Contains(occupation, occupation_pronouns[k])

\* the field a tidied capture gives: the title-cased job title
OccupationField(occupation) ==
  IF OccupationAccepted(occupation) THEN Title(occupation) ELSE NotSpecified

\* the matches ms of one pattern on one cleaned fragment, in order: the
\* first accepted occupation, or NotSpecified
OccupationOfMatches(clean, ms) ==
  FirstOther([k \in 1..Len(ms) |->
                OccupationField(OccupationTidy(Captured(clean, ms[k])))],
             NotSpecified)

\* the `for pattern in occupation_indicators` loop on one cleaned fragment
OccupationByPatterns(clean) ==
  FirstOther([k \in 1..Len(occupation_indicators) |->
                OccupationOfMatches(clean,
                                    FindAll(occupation_indicators[k], clean, TRUE))],
             NotSpecified)

OccupationInFragment(content) ==
  IF Len(content) < MinContentLen THEN NotSpecified
  ELSE OccupationByPatterns(OccupationClean(content))

\* the `for content in all_content` loop: first fragment with an occupation
OccupationFromText(all_content) ==
  FirstOther([k \in 1..Len(all_content) |-> OccupationInFragment(all_content[k])],
             NotSpecified)

\* subreddit_counter[x]: the number of comments whose lowercased subreddit is x
SubredditCount(comments, x) ==
  Cardinality({k \in 1..Len(comments) : Lower(comments[k].subreddit) = x})

\* sub_to_occupation; its keys are professional_subs
sub_to_occupation ==
  << <<"programming", "Software Developer">>, <<"webdev", "Web Developer">>,
     <<"learnprogramming", "Aspiring Programmer">>,
     <<"cscareerquestions", "Tech Professional">>,
     <<"datascience", "Data Scientist">>, <<"engineering", "Engineer">>,
     <<"askengineers", "Engineer">>, <<"medicine", "Medical Professional">>,
     <<"nursing", "Nurse">>, <<"law", "Legal Professional">>,
     <<"lawyers", "Lawyer">>, <<"teachers", "Teacher">>,
     <<"marketing", "Marketing Professional">>,
     <<"sales", "Sales Professional">>, <<"entrepreneur", "Entrepreneur">>,
     <<"startups", "Startup Founder">>,
     <<"smallbusiness", "Small Business Owner">>, <<"freelance", "Freelancer">>,
     <<"graphic_design", "Graphic Designer">>, <<"photography", "Photographer">>,
     <<"filmmakers", "Filmmaker">>, <<"writing", "Writer">>, <<"art", "Artist">>,
     <<"music", "Musician">>, <<"chefs", "Chef">>,
     <<"talesfromyourserver", "Restaurant Server">>,
     <<"talesfromretail", "Retail Worker">>,
     <<"talesfromtechsupport", "IT Support">> >>

professional_subs == {sub_to_occupation[k][1] : k \in 1..Len(sub_to_occupation)}

\* lines 667-719: the occupation of the professional subreddit with the most
\* comments; max() keeps the first maximum in the Counter's order, which is
\* the order of first occurrence among the comments
OccupationFromSubreddits(comments) ==
  LET pro  == {k \in 1..Len(comments) :
                 Lower(comments[k].subreddit) \in professional_subs}
      cnt(k) == SubredditCount(comments, Lower(comments[k].subreddit))
      best == {k \in pro : \A j \in pro : cnt(j) <= cnt(k)}
  IN  IF pro = {} THEN NotSpecified
      ELSE LET first == CHOOSE k \in best : \A j \in best : k <= j
               entry == CHOOSE e \in 1..Len(sub_to_occupation) :
                          sub_to_occupation[e][1] = Lower(comments[first].subreddit)
           IN  sub_to_occupation[entry][2]

student_indicators ==
  <<"college student", "university student", "grad student",
    "graduate student", "high school student", "student at", "studying at",
    "pursuing", "majoring in">>

\* lines 722-731
IsStudent(all_content) ==
  \E c \in 1..Len(all_content) : \E k \in 1..Len(student_indicators) :
     Contains(Lower(all_content[c]), student_indicators[k])

\* the occupation field: text patterns, then the subreddit mapping, then the
\* student indicators
OrFromSubreddits(occupation, comments) ==
  IF occupation = NotSpecified /\ comments # <<>>
  THEN OccupationFromSubreddits(comments) ELSE occupation

OrStudent(occupation, all_content) ==
  IF occupation = NotSpecified /\ IsStudent(all_content) THEN "Student"
  ELSE occupation

ExtractOccupation(all_content, comments) ==
  OrStudent(OrFromSubreddits(OccupationFromText(all_content), comments),
            all_content)

(***************************************************************************)
(* extract_personal_info: relationship status                              *)
(***************************************************************************)
\* w1\s+w2\s+...
Words(ws) ==
  Cat([k \in 1..(2 * Len(ws) - 1) |->
         IF k % 2 = 1 THEN Lit(ws[(k + 1) \div 2]) ELSE Plus(ReS)])

\* (?:\s+<word>\s+\w+)?
OptWordThen(w) == Opt(Cat(<<Plus(ReS), Lit(w), Plus(ReS), Plus(ReW)>>))

\* we(?:\'?re| are)?
WeAre == Cat(<<Lit("we"), Opt(Alt(<<Cat(<<Opt(Lit("'")), Lit("re")>>), Lit(" are")>>))>>)

\* fianc[ée]e?  (the accented letter is not in the alphabet of the texts)
Fiance == Cat(<<Lit("fianc"), In({"e"}), Opt(Lit("e"))>>)

\* s.o.
SoRe == Cat(<<Lit("s"), ReAny, Lit("o"), ReAny>>)

\* (?:\s+and\s+i)?
OptAndI == Opt(Cat(<<Plus(ReS), Lit("and"), Plus(ReS), Lit("i")>>))

\* relationship_patterns: <<pattern, status>>, in list order
relationship_patterns ==
  << <<Cat(<<IAmOpt(<<"'ve been">>), Plus(ReS),
             Opt(Cat(<<Lit("happily"), Plus(ReS)>>)),
             Alt(<<Lit("married"), Lit("engaged"), Lit("betrothed"),
                   Cat(<<Lit("wed"), Opt(Lit("ded"))>>)>>),
             OptWordThen("to"), OptWordThen("for"), WordB>>), "married">>,
     <<Cat(<<Lit("my"), Plus(ReS),
             Alt(<<Lit("wife"), Lit("husband"), Lit("spouse"), Fiance>>),
             OptAndI, WordB>>), "married">>,
     <<Cat(<<WeAre, Plus(ReS),
             Alt(Lits(<<"married", "engaged", "together">>)),
             OptWordThen("for"), WordB>>), "married">>,
     <<Cat(<<IAmOpt(<<"'ve been">>), Plus(ReS),
             Alt(<<Words(<<"in", "a", "relationship">>), Lit("dating"),
                   Words(<<"going", "out">>), Words(<<"seeing", "someone">>)>>),
             OptWordThen("with"), OptWordThen("for"), WordB>>),
       "in a relationship">>,
     <<Cat(<<Lit("my"), Plus(ReS),
             Alt(<<Lit("girlfriend"), Lit("boyfriend"), Lit("partner"), SoRe,
                   Words(<<"significant", "other">>),
                   Words(<<"better", "half">>)>>),
             OptAndI, WordB>>), "in a relationship">>,
     <<Cat(<<WeAre, Plus(ReS), Lit("together"), OptWordThen("for"), WordB>>),
       "in a relationship">>,
     <<Cat(<<IAmOpt(<<>>), Plus(ReS),
             Alt(<<Lit("single"), Lit("unattached"),
                   Words(<<"not", "seeing", "anyone">>),
                   Cat(<<Words(<<"not", "dating">>),
                         Opt(Cat(<<Plus(ReS), Lit("anyone")>>))>>),
                   Words(<<"not", "in", "a", "relationship">>)>>),
             WordB>>), "single">>,
     <<Cat(<<IAmOpt(<<>>), Plus(ReS),
             Alt(<<Words(<<"dating", "around">>),
                   Words(<<"playing", "the", "field">>),
                   Words(<<"happily", "single">>)>>)>>), "single">>,
     <<Alt(<<Words(<<"it's", "complicated">>),
             Words(<<"complicated", "relationship">>),
             Words(<<"on", "and", "off">>)>>), "it's complicated">>,
     <<Alt(<<Cat(<<Lit("in"), Plus(ReS), Lit("a"), Opt(Lit("n")), Plus(ReS),
                   Words(<<"open", "relationship">>)>>),
             Words(<<"open", "marriage">>),
             Cat(<<Lit("ethically"), Plus(ReS), Lit("non"), Opt(Lit("-")),
                   Lit("monogamous")>>)>>), "in an open relationship">>,
     <<Alt(<<Cat(<<Lit("divorc"), Alt(Lits(<<"ed", "ing">>))>>),
             Cat(<<Lit("separat"), Alt(Lits(<<"ed", "ing">>))>>),
             Words(<<"split", "up">>), Words(<<"broke", "up">>)>>),
       "divorced/separated">>,
     <<Alt(<<Cat(<<Lit("widow"), Opt(Lit("ed"))>>),
             Cat(<<Words(<<"lost", "my">>), Plus(ReS),
                   Alt(Lits(<<"wife", "husband", "partner">>))>>)>>),
       "widowed">> >>

\* context_patterns: <<pattern, status>>, in list order
context_patterns ==
  << <<Cat(<<Lit("my"), Plus(ReS),
             Alt(<<Lit("wife"), Lit("husband"), Lit("spouse"), Fiance,
                   Lit("girlfriend"), Lit("boyfriend"), Lit("partner"), SoRe,
                   Words(<<"significant", "other">>)>>)>>),
       "in a relationship">>,
     <<Cat(<<Lit("our"), Plus(ReS),
             Alt(Lits(<<"anniversary", "wedding", "marriage",
                        "relationship">>))>>), "married">>,
     <<Words(<<"we've", "been", "together", "for">>), "in a relationship">>,
     <<Cat(<<Lit("my"), Plus(ReS), Lit("ex"),
             Opt(Cat(<<Lit("-"), Plus(ReW)>>)), WordB>>), "single">> >>

\* the status of the first pattern of the list that is found in clean
FirstStatus(patterns, clean) ==
  FirstOther([k \in 1..Len(patterns) |->
                IF Search(patterns[k][1], clean, TRUE).ok THEN patterns[k][2]
                ELSE NotSpecified],
             NotSpecified)

\* the contextual patterns are tried when no direct pattern was found
OrContext(direct, clean) ==
  IF direct # NotSpecified THEN direct ELSE FirstStatus(context_patterns, clean)

StatusOfClean(clean) == OrContext(FirstStatus(relationship_patterns, clean), clean)

\* lines 766-782 on one fragment: a direct pattern, else a contextual one
StatusInFragment(content) == StatusOfClean(Lower(CleanContent(content)))

\* the `for content in all_content` loop: first fragment with a status
StatusFromText(all_content) ==
  FirstOther([k \in 1..Len(all_content) |-> StatusInFragment(all_content[k])],
             NotSpecified)

family_subs ==
  {"marriage", "relationships", "relationship_advice", "dating_advice",
   "weddingplanning", "weddings", "divorce", "singleparents", "dating"}

\* the status of the first relationship-themed subreddit in comment order
StatusFromFirstSubreddit(comments) ==
  LET themed == {k \in 1..Len(comments) :
                   Lower(comments[k].subreddit) \in family_subs}
      sub == Lower(comments[CHOOSE k \in themed : \A j \in themed : k <= j].subreddit)
  IN  IF themed = {} THEN NotSpecified
      ELSE IF sub = "divorce" THEN "divorced/separated"
      ELSE IF sub = "singleparents" THEN "single parent"
      ELSE IF sub \in {"marriage", "weddingplanning", "weddings"} THEN "married"
      ELSE IF sub \in {"relationships", "dating_advice", "dating"}
           THEN "in a relationship"
      ELSE NotSpecified

\* lines 788-803: the status inferred from the subreddits commented in
StatusFromSubreddits(comments) ==
  LET user_subs == {Lower(comments[k].subreddit) : k \in 1..Len(comments)}
  IN  IF user_subs \cap family_subs = {} THEN NotSpecified
      ELSE IF "divorce" \in user_subs THEN "divorced/separated"
      ELSE IF "singleparents" \in user_subs THEN "single parent"
      ELSE IF user_subs \cap {"marriage", "weddingplanning", "weddings"} # {}
           THEN "married"
      ELSE IF user_subs \cap {"relationships", "dating_advice", "dating"} # {}
           THEN "in a relationship"
      ELSE NotSpecified

OrStatusFromSubreddits(status, comments) ==
  IF status = NotSpecified /\ comments # <<>>
  THEN StatusFromSubreddits(comments) ELSE status

ExtractMarriageStatus(all_content, comments) ==
  OrStatusFromSubreddits(StatusFromText(all_content), comments)

\* extract_personal_info(text, comments, posts)
PersonalInfo(all_content, comments, current_year) ==
  [age             |-> ExtractAge(all_content, current_year),
   occupation      |-> ExtractOccupation(all_content, comments),
   marriage_status |-> ExtractMarriageStatus(all_content, comments),
   location        |-> ExtractLocation(all_content)]

extract_personal_info(text, comments, posts, current_year) ==
  PersonalInfo(AllContent(text, comments, posts), comments, current_year)

(***************************************************************************)
(* Narrative extractors.  A claim is <<claim text, source citation>>.      *)
(***************************************************************************)
motivation_triggers == <<"want to", "hope to", "aspire to", "dream of", "goal is">>

goal_triggers == <<"goal", "objective", "aim", "target">>

behavior_triggers == <<"i always", "i usually", "i often">>

frustration_triggers == <<"frustrat", "annoy", "bother", "problem", "issue">>

NoMotivations == <<"No explicit motivations mentioned recently", "N/A">>

NoGoals == <<"Not explicitly mentioned in recent activity", "N/A">>

NoBehaviors == <<"Patterns not clearly identifiable from recent activity", "N/A">>

NoFrustrations == <<"No explicit frustrations mentioned recently", "N/A">>

\* the lengths of the snippets: text[...][:100] and text[:150]
ShortSnippet == 100

LongSnippet == 150

\* any(word in text for word in triggers)
HasTrigger(text, triggers) ==
  \E k \in 1..Len(triggers) : Contains(text, triggers[k])

\* the entries of made at the indices kept, in index order (the
\* `for item in items: if ...: out.append(...)` loops, with what each item
\* would append in made and the items that satisfy the condition in kept)
Collect(made, kept) ==
  LET nth(n) == CHOOSE k \in kept : Cardinality({j \in kept : j <= k}) = n
  IN  [n \in 1..Cardinality(kept) |-> made[nth(n)]]

\* the variant that does not say what was cited
BareCitation(c) == "r/" \o c.subreddit

CommentCitation(c) == "Comment in r/" \o c.subreddit

PostCitation(p) == "Post in r/" \o p.subreddit

\* the variant without the sentinel
FoundOnly(found, sentinel) == found

\* `found or [sentinel]`
OrSentinel(found, sentinel) == IF found = <<>> THEN <<sentinel>> ELSE found

\* the claim of extract_motivations for a lowercased text
Motivation(text, citation) ==
  <<"Wants to " \o Take(AfterLast(text, "want to"), ShortSnippet) \o "...",
    citation>>

\* the variant that reads the posts as well
extract_motivations_everywhere(comments, posts) ==
  OrSentinel(
    Collect([k \in 1..(Len(comments) + Len(posts)) |->
               IF k <= Len(comments)
               THEN Motivation(Lower(comments[k].body), CommentCitation(comments[k]))
               ELSE Motivation(Lower(PostText(posts[k - Len(comments)])),
                               PostCitation(posts[k - Len(comments)]))],
            {k \in 1..(Len(comments) + Len(posts)) :
               HasTrigger(Lower(IF k <= Len(comments) THEN comments[k].body
                                ELSE PostText(posts[k - Len(comments)])),
                          motivation_triggers)}),
    NoMotivations)

extract_motivations(comments, posts) ==
  OrSentinel(
    Collect([k \in 1..Len(comments) |->
               Motivation(Lower(comments[k].body), CommentCitation(comments[k]))],
            {k \in 1..Len(comments) :
               HasTrigger(Lower(comments[k].body), motivation_triggers)}),
    NoMotivations)

extract_goals(comments, posts) ==
  OrSentinel(
    Collect([k \in 1..Len(posts) |->
               <<"Aims to " \o
                   Take(AfterLast(Lower(PostText(posts[k])), "goal"), ShortSnippet)
                   \o "...",
                 PostCitation(posts[k])>>],
            {k \in 1..Len(posts) :
               HasTrigger(Lower(PostText(posts[k])), goal_triggers)}),
    NoGoals)

extract_behaviors(comments, posts) ==
  OrSentinel(
    Collect([k \in 1..Len(comments) |->
               <<"Habit: " \o Take(Lower(comments[k].body), LongSnippet) \o "...",
                 CommentCitation(comments[k])>>],
            {k \in 1..Len(comments) :
               HasTrigger(Lower(comments[k].body), behavior_triggers)}),
    NoBehaviors)

extract_frustrations(comments, posts) ==
  OrSentinel(
    Collect([k \in 1..Len(comments) |->
               <<"Frustrated by: " \o Take(Lower(comments[k].body), LongSnippet)
                   \o "...",
                 CommentCitation(comments[k])>>],
            {k \in 1..Len(comments) :
               HasTrigger(Lower(comments[k].body), frustration_triggers)}),
    NoFrustrations)

(***************************************************************************)
(* Classifiers                                                             *)
(***************************************************************************)
\* the factor of the question/answer comparison, the word count above which
\* a comment without '?' is an answer, the subreddit count above which the
\* account is an explorer
ArchetypeRatio == 2

AnswerMinWords == 10

ExplorerMinSubs == 5

question_count(comments) ==
  Cardinality({k \in 1..Len(comments) : Contains(comments[k].body, "?")})

answer_count(comments) ==
  Cardinality({k \in 1..Len(comments) :
     /\ ~Contains(comments[k].body, "?")
     /\ WordCount(comments[k].body) > AnswerMinWords})

\* the variant that looks at the number of subreddits first
determine_archetype_subs_first(comments, posts, personality_trait) ==
  IF comments = <<>> /\ posts = <<>> THEN "Observer"
  ELSE IF Cardinality({comments[k].subreddit : k \in 1..Len(comments)})
            > ExplorerMinSubs
       THEN "The Explorer"
  ELSE IF question_count(comments) > answer_count(comments) * ArchetypeRatio
       THEN "The Inquirer"
  ELSE IF answer_count(comments) > question_count(comments) * ArchetypeRatio
       THEN "The Helper"
  ELSE "The Engaged Member"

determine_archetype(comments, posts, personality_trait) ==
  IF comments = <<>> /\ posts = <<>> THEN "Observer"
  ELSE IF question_count(comments) > answer_count(comments) * ArchetypeRatio
       THEN "The Inquirer"
  ELSE IF answer_count(comments) > question_count(comments) * ArchetypeRatio
       THEN "The Helper"
  ELSE IF Cardinality({comments[k].subreddit : k \in 1..Len(comments)})
            > ExplorerMinSubs
       THEN "The Explorer"
  ELSE "The Engaged Member"

\* 0.1 in the unit of the modelled scores, 1/10000 (VADER rounds the
\* compound score to four decimals)
SentimentThreshold == 1000

\* avg_sentiment.get('compound', 0)
CompoundScore(avg_sentiment) ==
  IF "compound" \in DOMAIN avg_sentiment THEN avg_sentiment["compound"] ELSE 0

\* the variant whose boundary scores are not neutral
PersonalityInclusive(compound_score) ==
  IF compound_score >= SentimentThreshold THEN "Friendly and engaging"
  ELSE IF -SentimentThreshold < compound_score /\ compound_score < SentimentThreshold
       THEN "Neutral or reserved"
  ELSE "Direct or critical"

Personality(compound_score) ==
  IF compound_score > SentimentThreshold THEN "Friendly and engaging"
  ELSE IF -SentimentThreshold <= compound_score /\ compound_score <= SentimentThreshold
       THEN "Neutral or reserved"
  ELSE "Direct or critical"

\* the emoji printed in front of "Overall Sentiment" (line 882)
sentiment_emoji(compound_score) ==
  IF compound_score > SentimentThreshold THEN "smiling"
  ELSE IF compound_score > -SentimentThreshold THEN "neutral"
  ELSE "worried"

\* the word printed after the percentage (line 883)
SentimentWord(compound_score) ==
  IF compound_score > 0 THEN "positive"
  ELSE IF compound_score < 0 THEN "negative"
  ELSE "neutral"

HighlyActiveAbove == 200

ActiveAbove == 50

\* the variant with the boundaries on the other side, which the properties
\* of the activity level must tell from ActivityLevel
ActivityLevelInclusive(total_comments, total_posts) ==
  IF total_comments + total_posts >= HighlyActiveAbove THEN "Highly active"
  ELSE IF total_comments + total_posts >= ActiveAbove THEN "Active"
  ELSE "Casual"

ActivityLevel(total_comments, total_posts) ==
  IF total_comments + total_posts > HighlyActiveAbove THEN "Highly active"
  ELSE IF total_comments + total_posts > ActiveAbove THEN "Active"
  ELSE "Casual"

\* s[:3] on a list
TopN == 3

\* the variant that keeps the end of the list
LastN(list, n) ==
  IF Len(list) <= n THEN list ELSE SubSeq(list, Len(list) - n + 1, Len(list))

FirstN(list, n) == IF Len(list) <= n THEN list ELSE SubSeq(list, 1, n)

MostCommon == 5

\* the variant that lists the subreddits in order of first occurrence
FirstSubreddits(comments, posts) ==
  LET all_subs == [k \in 1..(Len(comments) + Len(posts)) |->
                     IF k <= Len(comments) THEN comments[k].subreddit
                     ELSE posts[k - Len(comments)].subreddit]
      firsts   == {k \in 1..Len(all_subs) :
                     \A j \in 1..(k - 1) : all_subs[j] # all_subs[k]}
      cnt(k)   == Cardinality({j \in 1..Len(all_subs) : all_subs[j] = all_subs[k]})
      rank(k)  == Cardinality({j \in firsts : j < k}) + 1
      shown    == IF Cardinality(firsts) < MostCommon
                  THEN Cardinality(firsts) ELSE MostCommon
  IN  [n \in 1..shown |->
         LET k == CHOOSE f \in firsts : rank(f) = n
         IN  [subreddit |-> all_subs[k], count |-> cnt(k)]]

\* Counter(all_subs).most_common(5): pairs <<subreddit, count>> by decreasing
\* count, equal counts in order of first occurrence
TopSubreddits(comments, posts) ==
  LET all_subs == [k \in 1..(Len(comments) + Len(posts)) |->
                     IF k <= Len(comments) THEN comments[k].subreddit
                     ELSE posts[k - Len(comments)].subreddit]
      firsts   == {k \in 1..Len(all_subs) :
                     \A j \in 1..(k - 1) : all_subs[j] # all_subs[k]}
      cnt(k)   == Cardinality({j \in 1..Len(all_subs) : all_subs[j] = all_subs[k]})
      before(j, k) == cnt(j) > cnt(k) \/ (cnt(j) = cnt(k) /\ j < k)
      rank(k)  == Cardinality({j \in firsts : before(j, k)}) + 1
      shown    == IF Cardinality(firsts) < MostCommon
                  THEN Cardinality(firsts) ELSE MostCommon
  IN  [n \in 1..shown |->
         LET k == CHOOSE f \in firsts : rank(f) = n
         IN  [subreddit |-> all_subs[k], count |-> cnt(k)]]

(***************************************************************************)
(* generate_persona_summary: the persona it returns and what it prints on  *)
(* the "Personality & Archetype" lines                                     *)
(***************************************************************************)
\* d.get(key, default) on a record used as a dict
Get(d, key, default) == IF key \in DOMAIN d THEN d[key] ELSE default

\* line 847-863: the record assembled from the parts
PersonaData(username, personal_info, personality, comments, posts) ==
  [username        |-> username,
   age             |-> personal_info.age,
   location        |-> personal_info.location,
   occupation      |-> personal_info.occupation,
   marriage_status |-> personal_info.marriage_status,
   archetype       |-> determine_archetype(comments, posts, personality),
   personality     |-> personality,
   motivations     |-> FirstN(extract_motivations(comments, posts), TopN),
   goals           |-> FirstN(extract_goals(comments, posts), TopN),
   behaviors       |-> FirstN(extract_behaviors(comments, posts), TopN),
   frustrations    |-> FirstN(extract_frustrations(comments, posts), TopN),
   activity_level  |-> ActivityLevel(Len(comments), Len(posts)),
   total_comments  |-> Len(comments),
   total_posts     |-> Len(posts)]

\* line 916-928: the table of the most active subreddits is added to the
\* record of a corpus that is not empty
WithTopSubreddits(persona_data, comments, posts) ==
  IF comments # <<>> \/ posts # <<>>
  THEN [k \in DOMAIN persona_data \cup {"top_subreddits"} |->
          IF k = "top_subreddits" THEN TopSubreddits(comments, posts)
          ELSE persona_data[k]]
  ELSE persona_data

\* the record generate_persona_summary returns
generate_persona_summary(username, comments, posts, avg_sentiment, current_year) ==
  WithTopSubreddits(
    PersonaData(username,
                extract_personal_info(Lower(AllText(comments, posts)),
                                      comments, posts, current_year),
                Personality(CompoundScore(avg_sentiment)),
                comments, posts),
    comments, posts)

Abs(n) == IF n < 0 THEN -n ELSE n

\* line 881-883: the personality and sentiment lines printed for a score
SentimentLines(compound_score) ==
  [personality |-> Personality(compound_score),
   emoji       |-> sentiment_emoji(compound_score),
   magnitude   |-> Abs(compound_score),
   word        |-> SentimentWord(compound_score)]

(***************************************************************************)
(* extract_username                                                        *)
(***************************************************************************)
\* s.lstrip(chars) and s.rstrip(chars)
LStrip(s, chars) ==
  LET keep == {i \in 1..Len(s) : CharAt(s, i) \notin chars}
  IN  IF keep = {} THEN ""
      ELSE SubSeq(s, CHOOSE i \in keep : \A j \in keep : i <= j, Len(s))

RStrip(s, chars) ==
  LET keep == {i \in 1..Len(s) : CharAt(s, i) \notin chars}
  IN  IF keep = {} THEN ""
      ELSE SubSeq(s, 1, CHOOSE i \in keep : \A j \in keep : j <= i)

\* s.split(sep)[0]
BeforeFirst(s, sep) ==
  LET hits == {i \in 0..Len(s) : OccursAt(s, sep, i)}
  IN  IF hits = {} THEN s
      ELSE Take(s, CHOOSE i \in hits : \A j \in hits : i <= j)

\* None, and a string where None is possible: the empty function and a
\* one-element sequence
None == << >>

Some(v) == <<v>>

\* line 213-226, on the stripped input
UsernameIn(t) ==
  IF ~\E c \in {"/", ".", ":"} : Contains(t, c)
  THEN LStrip(t, {"u", "/"})
  ELSE IF Contains(t, "reddit.com/user/")
  THEN BeforeFirst(BeforeFirst(AfterLast(t, "reddit.com/user/"), "/"), "?")
  ELSE IF Contains(t, "redd.it/")
  THEN BeforeFirst(AfterLast(t, "redd.it/"), "/")
  ELSE IF OccursAt(t, "http://", 0) \/ OccursAt(t, "https://", 0)
  THEN AfterLast(RStrip(t, {"/"}), "/")
  ELSE LStrip(t, {"u", "/"})

extract_username(input_text) ==
  IF input_text = "" THEN None ELSE Some(UsernameIn(Strip(input_text)))

(***************************************************************************)
(* The program as a state machine.  A run is one call of a method of the   *)
(* analyzer: analyze_user, which fetches the account's comments and posts, *)
(* scores the sentiment, generates the persona and assembles the record it *)
(* returns, or one of the methods analyze_user is built from, called on a  *)
(* corpus directly.                                                        *)
(***************************************************************************)
VARIABLES
  entry,            \* the method that was called
  pc,               \* where the call is
  username_or_url,  \* analyze_user's argument
  limit,            \* analyze_user's argument (100 unless given)
  feed_comments,    \* the account's comments at Reddit, newest first
  feed_posts,       \* the account's submissions at Reddit, newest first
  current_year,     \* the year of the clock, datetime.now().year
  username,         \* what extract_username returned
  comments,         \* the corpus: comments ...
  posts,            \* ... and posts
  personality_trait,\* determine_archetype's third argument
  avg_sentiment,    \* the polarity scores of the corpus text
  persona,          \* what generate_persona_summary returned
  printed,          \* the sentiment lines generate_persona_summary printed
  result,           \* what the called method returned
  export_to_sheets, \* analyze_user's argument
  google_sheets_service, \* the analyzer's Sheets client, or None
  spreadsheets,     \* what the Sheets account holds
  loop,             \* the interactive loop of main, None outside of main
  requests          \* the listings analyze_user asked the Reddit client for

vars == <<entry, pc, username_or_url, limit, feed_comments, feed_posts,
          current_year, username, comments, posts, personality_trait,
          avg_sentiment, persona, printed, result,
          export_to_sheets, google_sheets_service, spreadsheets, loop,
          requests>>

\* analyze_user's default limit, and the share of it that bounds the posts
DefaultLimit == 100

PostsLimitDivisor == 2

\* the polarity scores, as the dict of the one key the program reads
Polarity(s) == [compound |-> s]

\* an analyze_user that asks for the listings of its input as it is
FetchUnresolved ==
  /\ entry = "analyze_user" /\ pc = "start"
  /\ username' = Some(username_or_url)
  /\ pc' = "comments" /\ UNCHANGED result
  /\ requests' = Append(requests, <<"comments", username_or_url>>)
  /\ UNCHANGED <<entry, username_or_url, limit, feed_comments, feed_posts,
                 current_year, comments, posts, personality_trait,
                 avg_sentiment, persona, printed,
                 export_to_sheets, google_sheets_service, spreadsheets, loop>>

\* line 298-303
ResolveUsername ==
  /\ entry = "analyze_user" /\ pc = "start"
  /\ username' = extract_username(username_or_url)
  /\ IF username' = None \/ username' = Some("")
     THEN pc' = "done" /\ result' = None /\ UNCHANGED requests
     ELSE /\ pc' = "comments" /\ UNCHANGED result
          /\ requests' = Append(requests, <<"comments", username'[1]>>)
  /\ UNCHANGED <<entry, username_or_url, limit, feed_comments, feed_posts,
                 current_year, comments, posts, personality_trait,
                 avg_sentiment, persona, printed,
                 export_to_sheets, google_sheets_service, spreadsheets, loop>>

\* get_user_comments: one turn of the loop over user.comments.new(limit)
FetchComment ==
  /\ pc = "comments"
  /\ Len(comments) < Min(limit, Len(feed_comments))
  /\ comments' = Append(comments, feed_comments[Len(comments) + 1])
  /\ UNCHANGED <<entry, pc, username_or_url, limit, feed_comments, feed_posts,
                 current_year, username, posts, personality_trait,
                 avg_sentiment, persona, printed, result,
                 export_to_sheets, google_sheets_service, spreadsheets, loop,
                 requests>>

\* get_user_comments: the listing is exhausted, the list is returned
CommentsFetched ==
  /\ pc = "comments"
  /\ Len(comments) = Min(limit, Len(feed_comments))
  /\ pc' = "posts"
  /\ requests' = Append(requests, <<"posts", username[1]>>)
  /\ UNCHANGED <<entry, username_or_url, limit, feed_comments, feed_posts,
                 current_year, username, comments, posts, personality_trait,
                 avg_sentiment, persona, printed, result,
                 export_to_sheets, google_sheets_service, spreadsheets, loop>>

\* a failed listing that hands over what it had received
CommentsFailedKeepingReceived ==
  /\ pc = "comments"
  /\ pc' = "posts"
  /\ requests' = Append(requests, <<"posts", username[1]>>)
  /\ UNCHANGED <<entry, username_or_url, limit, feed_comments, feed_posts,
                 current_year, username, comments, posts, personality_trait,
                 avg_sentiment, persona, printed, result,
                 export_to_sheets, google_sheets_service, spreadsheets, loop>>

\* get_user_comments: an exception of the client, at any turn: [] is returned
CommentsFailed ==
  /\ pc = "comments"
  /\ comments' = << >>
  /\ pc' = "posts"
  /\ requests' = Append(requests, <<"posts", username[1]>>)
  /\ UNCHANGED <<entry, username_or_url, limit, feed_comments, feed_posts,
                 current_year, username, posts, personality_trait,
                 avg_sentiment, persona, printed, result,
                 export_to_sheets, google_sheets_service, spreadsheets, loop>>

FetchPost ==
  /\ pc = "posts"
  /\ Len(posts) < Min(limit \div PostsLimitDivisor, Len(feed_posts))
  /\ posts' = Append(posts, feed_posts[Len(posts) + 1])
  /\ UNCHANGED <<entry, pc, username_or_url, limit, feed_comments, feed_posts,
                 current_year, username, comments, personality_trait,
                 avg_sentiment, persona, printed, result,
                 export_to_sheets, google_sheets_service, spreadsheets, loop,
                 requests>>

PostsFetched ==
  /\ pc = "posts"
  /\ Len(posts) = Min(limit \div PostsLimitDivisor, Len(feed_posts))
  /\ pc' = "sentiment"
  /\ UNCHANGED <<entry, username_or_url, limit, feed_comments, feed_posts,
                 current_year, username, comments, posts, personality_trait,
                 avg_sentiment, persona, printed, result,
                 export_to_sheets, google_sheets_service, spreadsheets, loop,
                 requests>>

PostsFailed ==
  /\ pc = "posts"
  /\ posts' = << >>
  /\ pc' = "sentiment"
  /\ UNCHANGED <<entry, username_or_url, limit, feed_comments, feed_posts,
                 current_year, username, comments, personality_trait,
                 avg_sentiment, persona, printed, result,
                 export_to_sheets, google_sheets_service, spreadsheets, loop,
                 requests>>

\* line 311-316: the analyzer of the sentiment library scores the corpus
\* text; it gives the empty text the compound score 0
AnalyzeSentiment(scores) ==
  /\ pc = "sentiment"
  /\ \E s \in scores :
       /\ AllText(comments, posts) = "" => s = 0
       /\ avg_sentiment' = Polarity(s)
  /\ pc' = "generate"
  /\ UNCHANGED <<entry, username_or_url, limit, feed_comments, feed_posts,
                 current_year, username, comments, posts, personality_trait,
                 persona, printed, result,
                 export_to_sheets, google_sheets_service, spreadsheets, loop,
                 requests>>

\* generate_persona_summary, called by analyze_user (line 321) or directly
Generate ==
  /\ pc = "generate"
  /\ persona' = generate_persona_summary(username[1], comments, posts,
                                          avg_sentiment, current_year)
  /\ printed' = SentimentLines(CompoundScore(avg_sentiment))
  /\ IF entry = "analyze_user"
     THEN pc' = "assemble" /\ UNCHANGED result
     ELSE pc' = "done" /\ result' = persona'
  /\ UNCHANGED <<entry, username_or_url, limit, feed_comments, feed_posts,
                 current_year, username, comments, posts, personality_trait,
                 avg_sentiment,
                 export_to_sheets, google_sheets_service, spreadsheets, loop,
                 requests>>

\* analyze_sentiment raises (line 316): the outer handler of analyze_user,
\* line 370-374, prints the error and returns None
SentimentFailed ==
  /\ entry = "analyze_user" /\ pc = "sentiment"
  /\ pc' = "done" /\ result' = None
  /\ UNCHANGED <<entry, username_or_url, limit, feed_comments, feed_posts,
                 current_year, username, comments, posts, personality_trait,
                 avg_sentiment, persona, printed,
                 export_to_sheets, google_sheets_service, spreadsheets, loop,
                 requests>>

\* generate_persona_summary raises, in an extractor or anywhere else (it
\* has no handler of its own, line 816-936): the inner handler of
\* analyze_user, line 331-335, prints the error and returns None
GenerateFailed ==
  /\ entry = "analyze_user" /\ pc = "generate"
  /\ pc' = "done" /\ result' = None
  /\ UNCHANGED <<entry, username_or_url, limit, feed_comments, feed_posts,
                 current_year, username, comments, posts, personality_trait,
                 avg_sentiment, persona, printed,
                 export_to_sheets, google_sheets_service, spreadsheets, loop,
                 requests>>

\* the keys and defaults of default_dict, line 338-351
default_dict ==
  [age |-> "Not specified", location |-> "Not specified",
   occupation |-> "Not specified", marriage_status |-> "Not specified",
   archetype |-> "Not specified", communication_style |-> "Not specified",
   motivations |-> << >>, goals |-> << >>, behaviors |-> << >>,
   frustrations |-> << >>, activity_level |-> "Not active",
   top_subreddits |-> << >>]

\* a record of the keys the persona has, none filled in
persona_record_as_generated(name, p, total_comments, total_posts) ==
  [k \in (DOMAIN default_dict \cap DOMAIN p)
           \cup {"username", "total_comments", "total_posts"} |->
     CASE k = "username"       -> name
       [] k = "total_comments" -> total_comments
       [] k = "total_posts"    -> total_posts
       [] OTHER                -> p[k]]

\* line 353-362
persona_record(name, p, total_comments, total_posts) ==
  [k \in DOMAIN default_dict \cup {"username", "total_comments", "total_posts"} |->
     CASE k = "username"       -> name
       [] k = "total_comments" -> total_comments
       [] k = "total_posts"    -> total_posts
       [] OTHER                -> Get(p, k, default_dict[k])]

\* export_to_google_sheets, line 109-200.  A call to the service goes well,
\* or the creation of the spreadsheet raises (line 175-185), or the update
\* of its values does (line 198-200)
SheetsOutcomes == {"ok", "create fails", "update fails"}

\* line 135-155: one row per claim of a narrative category
NumberedRows(label, claims) ==
  [i \in 1..Len(claims) |->
     <<label \o " " \o ToString(i), claims[i][1], claims[i][2]>>]

\* line 123-155: the rows of the sheet
ExportValues(name, persona_data) ==
  << <<"Category", "Detail", "Source">>,
     <<"BASIC INFORMATION", "", "">>,
     <<"Username", name, "">>,
     <<"Age", Get(persona_data, "age", "N/A"), "">>,
     <<"Location", Get(persona_data, "location", "N/A"), "">>,
     <<"Occupation", Get(persona_data, "occupation", "N/A"), "">>,
     <<"Relationship Status", Get(persona_data, "marriage_status", "N/A"), "">>,
     <<"PERSONALITY & ARCHETYPE", "", "">>,
     <<"Archetype", Get(persona_data, "archetype", "N/A"), "">>,
     <<"Communication Style", Get(persona_data, "personality", "N/A"), "">>,
     <<"MOTIVATIONS", "", "">> >>
  \o NumberedRows("Motivation", Get(persona_data, "motivations", << >>))
  \o << <<"GOALS & NEEDS", "", "">> >>
  \o NumberedRows("Goal", Get(persona_data, "goals", << >>))
  \o << <<"BEHAVIOR & HABITS", "", "">> >>
  \o NumberedRows("Behavior", Get(persona_data, "behaviors", << >>))
  \o << <<"FRUSTRATIONS", "", "">> >>
  \o NumberedRows("Frustration", Get(persona_data, "frustrations", << >>))
  \o << <<"ACTIVITY SUMMARY", "", "">>,
        <<"Activity Level", Get(persona_data, "activity_level", "N/A"), "">>,
        <<"Total Comments", ToString(Get(persona_data, "total_comments", 0)), "">>,
        <<"Total Posts", ToString(Get(persona_data, "total_posts", 0)), "">> >>

\* the spreadsheets of the service after export_to_google_sheets: none is
\* made without a service (line 112-115) or when the creation fails; the
\* one created stays empty when the update fails (the date in the title is
\* left out)
SheetsAfter(sheets, service, name, persona_data, outcome) ==
  IF service = None \/ outcome = "create fails" THEN sheets
  ELSE Append(sheets,
              [title  |-> "Reddit Persona - " \o name,
               values |-> IF outcome = "ok"
                          THEN ExportValues(name, persona_data) ELSE << >>])

\* what export_to_google_sheets returns: the URL of the sheet, or None
SheetUrl(sheets, service, outcome) ==
  IF service # None /\ outcome = "ok"
  THEN Some("https://docs.google.com/spreadsheets/d/"
            \o ToString(Len(sheets) + 1) \o "/edit")
  ELSE None

\* an analyze_user whose result is what the export returned
AssembleSinkDecides ==
  /\ pc = "assemble"
  /\ \E outcome \in SheetsOutcomes :
       LET persona_data == persona_record(username[1], persona,
                                          Len(comments), Len(posts))
           exporting == export_to_sheets /\ google_sheets_service # None
       IN  /\ spreadsheets' =
                IF exporting
                THEN SheetsAfter(spreadsheets, google_sheets_service,
                                 username[1], persona_data, outcome)
                ELSE spreadsheets
           /\ result' =
                IF exporting /\ SheetUrl(spreadsheets, google_sheets_service,
                                         outcome) = None
                THEN None ELSE persona_data
  /\ pc' = "done"
  /\ UNCHANGED <<entry, username_or_url, limit, feed_comments, feed_posts,
                 current_year, username, comments, posts, personality_trait,
                 avg_sentiment, persona, printed,
                 export_to_sheets, google_sheets_service, loop, requests>>

\* line 323-368: the record is built over the defaults and, when the export
\* is asked for and the service is there, handed to export_to_google_sheets,
\* whose return value is dropped (line 365-366)
Assemble ==
  /\ pc = "assemble"
  /\ result' = IF persona = None THEN None
               ELSE persona_record(username[1], persona, Len(comments), Len(posts))
  /\ \E outcome \in SheetsOutcomes :
       spreadsheets' =
         IF persona # None /\ export_to_sheets /\ google_sheets_service # None
         THEN SheetsAfter(spreadsheets, google_sheets_service, username[1],
                          result', outcome)
         ELSE spreadsheets
  /\ pc' = "done"
  /\ UNCHANGED <<entry, username_or_url, limit, feed_comments, feed_posts,
                 current_year, username, comments, posts, personality_trait,
                 avg_sentiment, persona, printed,
                 export_to_sheets, google_sheets_service, loop, requests>>

(***************************************************************************)
(* main, line 1111-1231: the loop that asks for accounts.  loop is None    *)
(* when analyze_user is not called by main, and else the record of         *)
(*   argv        the command line after the program name                   *)
(*   username    args.username, cleared once it is used                    *)
(*   typed       the lines the user will type at the prompt                *)
(*   at          "ask", "analysing" or "ended"                             *)
(*   user_input  the account being processed                               *)
(*   reports     what was reported, one <<account, message>> per account   *)
(*   files       the local exports, one <<account, outcome>> per attempt   *)
(***************************************************************************)
\* line 1116-1121: what argparse makes of the command line
ParseArgs(argv) ==
  LET id_at == {k \in 1..Len(argv) :
                  argv[k] = "--spreadsheet-id" /\ k < Len(argv)}
      id_in == {k \in 1..Len(argv) : OccursAt(argv[k], "--spreadsheet-id=", 0)}
      names == {k \in 1..Len(argv) :
                  /\ ~OccursAt(argv[k], "--", 0)
                  /\ k - 1 \notin id_at}
      last(ks) == CHOOSE k \in ks : \A j \in ks : j <= k
  IN  [username |-> IF names = {} THEN None
                    ELSE Some(argv[CHOOSE k \in names : \A j \in names : k <= j]),
       export   |-> \E k \in 1..Len(argv) : argv[k] = "--export",
       excel    |-> \E k \in 1..Len(argv) : argv[k] = "--excel",
       spreadsheet_id |->
         IF id_at \cup id_in = {} THEN None
         ELSE LET k == last(id_at \cup id_in)
              IN  IF k \in id_at THEN Some(argv[k + 1])
                  ELSE Some(Drop(argv[k], Len("--spreadsheet-id=")))]

\* Python's truth of an optional string
Truthy(v) == v # None /\ v # Some("")

\* line 1154-1169: the account is taken from the command line the first
\* time and from the prompt afterwards (the end of the input raises out of
\* the loop, line 1226); an empty line or q leaves the loop, anything else
\* is handed to analyze_user
MainAsk ==
  /\ loop # None /\ loop.at = "ask"
  /\ LET from_args == Truthy(loop.username)
         eof == ~from_args /\ loop.typed = << >>
         user_input == IF from_args THEN loop.username[1]
                       ELSE IF eof THEN "" ELSE Strip(Head(loop.typed))
         rest == [loop EXCEPT !.username = IF from_args THEN None ELSE @,
                              !.typed = IF from_args \/ eof THEN @ ELSE Tail(@),
                              !.user_input = user_input]
     IN  IF eof \/ user_input = "" \/ Lower(user_input) = "q"
         THEN /\ loop' = [rest EXCEPT !.at = "ended"]
              /\ UNCHANGED <<pc, username_or_url, username, comments, posts,
                             avg_sentiment, persona, printed, result,
                             requests>>
         ELSE /\ loop' = [rest EXCEPT !.at = "analysing"]
              /\ pc' = "start" /\ username_or_url' = user_input
              /\ requests' = << >>
              /\ UNCHANGED <<username, comments, posts, avg_sentiment,
                             persona, printed, result>>
  /\ UNCHANGED <<entry, limit, feed_comments, feed_posts, current_year,
                 personality_trait, export_to_sheets, google_sheets_service,
                 spreadsheets>>

\* line 1171-1173: analyze_user gave nothing: it is said, and the loop
\* turns to the next account
ReportFailure ==
  /\ loop' = [loop EXCEPT !.at = "ask",
                          !.reports = Append(@, <<loop.user_input, "No data to export.">>)]
  /\ UNCHANGED spreadsheets

\* a loop that a failed analysis ends
EndOnFailure ==
  /\ loop' = [loop EXCEPT !.at = "ended",
                          !.reports = Append(@, <<loop.user_input, "No data to export.">>)]
  /\ UNCHANGED spreadsheets

\* line 1226-1227: the message for the NameError of lines 1208, 1211 and
\* 1218 and for the AttributeError of line 1214
NoCsvExport == "An error occurred: name 'export_to_csv' is not defined"

NoCsvOption == "An error occurred: 'Namespace' object has no attribute 'csv'"

\* a main that writes the local file only when --excel is given
ExcelWhenAsked(args, sheets_available) == args.excel

\* line 1176: the condition under which main exports to a local file;
\* sheets_available is main's flag export_to_sheets of line 1141-1145
LocalExport(args, sheets_available) ==
  \/ args.excel
  \/ (sheets_available /\ ~args.excel)
  \/ ~(args.excel \/ sheets_available)

\* line 1177-1190: export_to_excel writes the file; or it raises and the
\* record is dumped to a JSON file; or that raises as well, which is printed
LocalOutcomes == {"excel", "json", "failed"}

\* line 1175-1222: the local export is attempted and its outcome noted in
\* files (its failures are caught, line 1180-1190); with --export or
\* --spreadsheet-id the record is exported to Google Sheets, and the
\* fallback export_to_csv, which is not defined, raises out of the loop;
\* without them args.csv, which the parser does not define, raises out of
\* the loop; the loop goes on after a Sheets export that worked unless the
\* command line holds none of the options of line 1221
ReportSuccess ==
  LET args == ParseArgs(loop.argv)
      to_sheets == args.export \/ Truthy(args.spreadsheet_id)
      call == Truthy(args.spreadsheet_id) \/ google_sheets_service # None
      exits == /\ Len(loop.argv) > 0
               /\ ~\E k \in 1..Len(loop.argv) :
                     loop.argv[k] \in {"--export", "--spreadsheet-id", "--csv"}
  IN  \E local \in LocalOutcomes : \E outcome \in SheetsOutcomes :
        LET url == SheetUrl(spreadsheets, google_sheets_service, outcome)
            exported == to_sheets /\ call /\ url # None
            filed == [loop EXCEPT !.files =
                        IF LocalExport(args, google_sheets_service # None)
                        THEN Append(@, <<loop.user_input, local>>)
                        ELSE @]
        IN  /\ spreadsheets' =
                 IF to_sheets /\ call
                 THEN SheetsAfter(spreadsheets, google_sheets_service,
                                  loop.user_input, result, outcome)
                 ELSE spreadsheets
            /\ loop' =
                 IF ~exported
                 THEN [filed EXCEPT !.at = "ended",
                                    !.reports = Append(@, <<loop.user_input,
                                                  IF to_sheets THEN NoCsvExport ELSE NoCsvOption>>)]
                 ELSE [filed EXCEPT !.at = IF exits THEN "ended" ELSE "ask",
                                    !.reports = Append(@, <<loop.user_input, "Data exported to Google Sheets: " \o url[1]>>)]

\* the locals of analyze_user and the record it returned are not used again
Forgotten ==
  /\ username' = None /\ comments' = << >> /\ posts' = << >>
  /\ avg_sentiment' = None /\ persona' = None
  /\ printed' = None /\ result' = None

\* a main whose loop stops at the first account that fails
MainReportStopsOnFailure ==
  /\ loop # None /\ loop.at = "analysing" /\ pc = "done"
  /\ IF result = None THEN EndOnFailure ELSE ReportSuccess
  /\ pc' = "main" /\ Forgotten
  /\ UNCHANGED <<entry, username_or_url, limit, feed_comments, feed_posts,
                 current_year, personality_trait,
                 export_to_sheets, google_sheets_service, requests>>

\* line 1169-1222: what main does with what analyze_user returned
MainReport ==
  /\ loop # None /\ loop.at = "analysing" /\ pc = "done"
  /\ IF result = None THEN ReportFailure ELSE ReportSuccess
  /\ pc' = "main" /\ Forgotten
  /\ UNCHANGED <<entry, username_or_url, limit, feed_comments, feed_posts,
                 current_year, personality_trait,
                 export_to_sheets, google_sheets_service, requests>>

\* determine_archetype called on a corpus
DetermineArchetype ==
  /\ entry = "determine_archetype" /\ pc = "call"
  /\ result' = determine_archetype(comments, posts, personality_trait)
  /\ pc' = "done"
  /\ UNCHANGED <<entry, username_or_url, limit, feed_comments, feed_posts,
                 current_year, username, comments, posts, personality_trait,
                 avg_sentiment, persona, printed,
                 export_to_sheets, google_sheets_service, spreadsheets, loop,
                 requests>>

\* the four narrative extractors called on a corpus
ExtractNarrative ==
  /\ entry = "extract_narrative" /\ pc = "call"
  /\ result' = [motivations  |-> extract_motivations(comments, posts),
                goals        |-> extract_goals(comments, posts),
                behaviors    |-> extract_behaviors(comments, posts),
                frustrations |-> extract_frustrations(comments, posts)]
  /\ pc' = "done"
  /\ UNCHANGED <<entry, username_or_url, limit, feed_comments, feed_posts,
                 current_year, username, comments, posts, personality_trait,
                 avg_sentiment, persona, printed,
                 export_to_sheets, google_sheets_service, spreadsheets, loop,
                 requests>>

(***************************************************************************)
(* Specifications.  Each one fixes the calls and corpora that are run.     *)
(***************************************************************************)
SeqsUpTo(S, n) == UNION {[1..k -> S] : k \in 0..n}

\* nothing has run yet
Fresh ==
  /\ avg_sentiment = None /\ persona = None /\ printed = None /\ result = None

\* no export was asked for and no Sheets client is configured; the call is
\* not made by main
Plain ==
  /\ export_to_sheets = FALSE /\ google_sheets_service = None
  /\ spreadsheets = << >> /\ loop = None /\ requests = << >>

\* the year of the clock in the modelled runs
ClockYear == 2026

\* the scores the sentiment library may give a text: one of each bucket
\* (in units of 1/10000)
Scores == {-1001, 0, 1001}

\* analyze_user on a small account: the comments and posts that the feeds
\* of the account may hold
CommentPool ==
  {[body |-> "I am 25 years old and I want to learn rust", subreddit |-> "rust"],
   [body |-> "Why is it a problem? I usually cook", subreddit |-> "Cooking"]}

PostPool ==
  {[title |-> "My goal for this year", selftext |-> "",
    subreddit |-> "selfimprovement"],
   [title |-> "Hello",
    selftext |-> "I work as a nurse and I live in Texas since last summer",
    subreddit |-> "nursing"]}

MaxFeedComments == 2

MaxFeedPosts == 1

Inputs == {"", "   ", "https://www.reddit.com/user/kojied/"}

Init ==
  /\ entry = "analyze_user" /\ pc = "start"
  /\ username_or_url \in Inputs
  /\ limit = DefaultLimit
  /\ feed_comments \in SeqsUpTo(CommentPool, MaxFeedComments)
  /\ feed_posts \in SeqsUpTo(PostPool, MaxFeedPosts)
  /\ current_year = ClockYear
  /\ username = None /\ comments = << >> /\ posts = << >>
  /\ personality_trait = ""
  /\ Fresh
  /\ Plain

Next ==
  \/ ResolveUsername
  \/ FetchComment \/ CommentsFetched \/ CommentsFailed
  \/ FetchPost \/ PostsFetched \/ PostsFailed
  \/ AnalyzeSentiment(Scores)
  \/ SentimentFailed
  \/ Generate
  \/ GenerateFailed
  \/ Assemble

Spec == Init /\ [][Next]_vars

\* analyze_user on accounts whose sizes lie around the activity thresholds,
\* with the default limit and with a limit that lets the whole account in
LargeLimit == 302

FillerComment == [body |-> "k", subreddit |-> "pics"]

FillerPost == [title |-> "k", selftext |-> "", subreddit |-> "pics"]

Filler(n, item) == [k \in 1..n |-> item]

CommentCounts ==
  {0, ActiveAbove, ActiveAbove + 1,
   HighlyActiveAbove - ActiveAbove, HighlyActiveAbove - ActiveAbove + 1}

PostCounts == {0, ActiveAbove}

InitActivity ==
  /\ entry = "analyze_user" /\ pc = "start"
  /\ username_or_url = "u/kojied"
  /\ limit \in {DefaultLimit, LargeLimit}
  /\ feed_comments \in {Filler(n, FillerComment) : n \in CommentCounts}
  /\ feed_posts \in {Filler(n, FillerPost) : n \in PostCounts}
  /\ current_year = ClockYear
  /\ username = None /\ comments = << >> /\ posts = << >>
  /\ personality_trait = ""
  /\ Fresh
  /\ Plain

SpecActivity == InitActivity /\ [][Next]_vars

\* determine_archetype called on corpora of questions, answers and short
\* remarks, in one subreddit or in a subreddit each
MaxArchetypeComments == 6

Question == "why?"

Answer == "you can do it like this one two three four five six"

ShortAnswer == "you can do it like this one two three four five"

Remark == "ok"

Subreddits == <<"pics", "rust", "Cooking", "AskReddit", "nursing", "python", "news">>

\* nq questions, then na answers, then nr short answers or remarks; the
\* k-th comment in the k-th subreddit if spread, else all in the first
ArchetypeComments(nq, na, nr, short, spread) ==
  [k \in 1..(nq + na + nr) |->
     [body      |-> IF k <= nq THEN Question
                    ELSE IF k <= nq + na THEN Answer
                    ELSE short,
      subreddit |-> Subreddits[IF spread THEN ((k - 1) % Len(Subreddits)) + 1 ELSE 1]]]

ArchetypeCorpora ==
  {ArchetypeComments(nq, na, nr, short, spread) :
     nq \in 0..MaxArchetypeComments, na \in 0..MaxArchetypeComments,
     nr \in 0..MaxArchetypeComments, short \in {ShortAnswer, Remark},
     spread \in BOOLEAN}

PersonalityLabels ==
  {"Friendly and engaging", "Neutral or reserved", "Direct or critical"}

InitArchetype ==
  /\ entry = "determine_archetype" /\ pc = "call"
  /\ username_or_url = "" /\ limit = DefaultLimit
  /\ feed_comments = << >> /\ feed_posts = << >>
  /\ current_year = ClockYear
  /\ username = None
  /\ comments \in {c \in ArchetypeCorpora : Len(c) <= MaxArchetypeComments}
  /\ posts \in SeqsUpTo({FillerPost}, 1)
  /\ personality_trait \in PersonalityLabels
  /\ Fresh
  /\ Plain

NextArchetype == DetermineArchetype

SpecArchetype == InitArchetype /\ [][NextArchetype]_vars

\* generate_persona_summary called directly: on every score around the
\* thresholds and on polarity scores without a compound entry, on corpora
\* with up to MaxListItems items that match the triggers, and on corpora of
\* fragments that mention an age, or mention one only when read together
WideScores == {-10000, -1001, -1000, -999, -1, 0, 1, 999, 1000, 1001, 10000}

NoCompound == [neg |-> 0, neu |-> 10000, pos |-> 0]

MaxListItems == 4

ListPool ==
  {[body |-> "I always want to aim, a problem", subreddit |-> "rust"],
   [body |-> "I often hope to fix my target issue", subreddit |-> "Cooking"],
   [body |-> "Nice", subreddit |-> "pics"]}

\* the posts that say what the comments say
AsPosts(cs) ==
  [k \in 1..Len(cs) |->
     [title |-> cs[k].body, selftext |-> "", subreddit |-> cs[k].subreddit]]

MaxAgeComments == 2

AgePool ==
  {[body |-> "when I was", subreddit |-> "pics"],
   [body |-> "25 people came", subreddit |-> "pics"],
   [body |-> "I am 30 years old", subreddit |-> "pics"],
   [body |-> "I'm 12 and born in 2020", subreddit |-> "pics"],
   [body |-> "She is turning 100", subreddit |-> "pics"]}

AgePostPool ==
  {[title |-> "Born in 1926", selftext |-> "", subreddit |-> "pics"]}

GenerateInputs ==
  {[comments |-> cs, posts |-> << >>, avg_sentiment |-> a] :
     cs \in SeqsUpTo(CommentPool, 1),
     a \in {Polarity(s) : s \in WideScores} \cup {NoCompound}}
  \cup
  {[comments |-> cs, posts |-> << >>, avg_sentiment |-> Polarity(0)] :
     cs \in SeqsUpTo(ListPool, MaxListItems)}
  \cup
  {[comments |-> << >>, posts |-> AsPosts(cs), avg_sentiment |-> Polarity(0)] :
     cs \in SeqsUpTo(ListPool, MaxListItems)}
  \cup
  {[comments |-> cs, posts |-> ps, avg_sentiment |-> Polarity(0)] :
     cs \in SeqsUpTo(AgePool, MaxAgeComments), ps \in SeqsUpTo(AgePostPool, 1)}

InitGenerate ==
  /\ entry = "generate_persona_summary" /\ pc = "generate"
  /\ username_or_url = "" /\ limit = DefaultLimit
  /\ feed_comments = << >> /\ feed_posts = << >>
  /\ current_year = ClockYear
  /\ username = Some("kojied")
  /\ \E in \in GenerateInputs :
       /\ comments = in.comments
       /\ posts = in.posts
       /\ avg_sentiment = in.avg_sentiment
  /\ personality_trait = ""
  /\ persona = None /\ printed = None /\ result = None
  /\ Plain

NextGenerate == Generate

SpecGenerate == InitGenerate /\ [][NextGenerate]_vars

\* the four narrative extractors called on corpora of comments and posts
\* that hold triggers of several categories, of one, or of none
MaxNarrativeComments == 3

MaxNarrativePosts == 2

NarrativeComments ==
  {[body |-> "I WANT TO travel and I hope to see Japan", subreddit |-> "travel"],
   [body |-> "I always forget; it is such a Problem", subreddit |-> "rust"],
   [body |-> "My goal is clear", subreddit |-> "Cooking"],
   [body |-> "Nice photo", subreddit |-> "pics"]}

NarrativePosts ==
  {[title |-> "New Target", selftext |-> "I want to run, it bothers me",
    subreddit |-> "running"],
   [title |-> "My", selftext |-> "aim is to rest", subreddit |-> "rust"],
   [title |-> "Hello", selftext |-> "world", subreddit |-> "pics"]}

InitNarrative ==
  /\ entry = "extract_narrative" /\ pc = "call"
  /\ username_or_url = "" /\ limit = DefaultLimit
  /\ feed_comments = << >> /\ feed_posts = << >>
  /\ current_year = ClockYear
  /\ username = None
  /\ comments \in SeqsUpTo(NarrativeComments, MaxNarrativeComments)
  /\ posts \in SeqsUpTo(NarrativePosts, MaxNarrativePosts)
  /\ personality_trait = ""
  /\ Fresh
  /\ Plain

NextNarrative == ExtractNarrative

SpecNarrative == InitNarrative /\ [][NextNarrative]_vars

\* generate_persona_summary called directly in two years, on corpora of
\* short fragments that state an age, a birth year, a place or a job, and on
\* the one comment of the example scenario
MaxPersonalComments == 2

PersonalPool ==
  {[body |-> "When I was 25 I moved", subreddit |-> "pics"],
   [body |-> "I am 40 years old", subreddit |-> "pics"],
   [body |-> "I work as a nurse", subreddit |-> "pics"],
   [body |-> "I live in Texas ok", subreddit |-> "pics"],
   [body |-> "grad student", subreddit |-> "pics"],
   [body |-> "born in 1990", subreddit |-> "nursing"]}

PersonalPostPool ==
  {[title |-> "Hi", selftext |-> "I am 33", subreddit |-> "pics"]}

ExampleComment ==
  [body |-> "I'm 28 years old and I live in Texas, I work as a teacher. I'm frustrated by long commutes",
   subreddit |-> "teaching"]

PersonalInputs ==
  {[comments |-> cs, posts |-> ps] :
     cs \in SeqsUpTo(PersonalPool, MaxPersonalComments),
     ps \in SeqsUpTo(PersonalPostPool, 1)}
  \cup {[comments |-> <<ExampleComment>>, posts |-> << >>]}

InitPersonal ==
  /\ entry = "generate_persona_summary" /\ pc = "generate"
  /\ username_or_url = "" /\ limit = DefaultLimit
  /\ feed_comments = << >> /\ feed_posts = << >>
  /\ current_year \in {ClockYear, ClockYear + 1}
  /\ username = Some("kojied")
  /\ \E in \in PersonalInputs : comments = in.comments /\ posts = in.posts
  /\ avg_sentiment = Polarity(0)
  /\ personality_trait = ""
  /\ persona = None /\ printed = None /\ result = None
  /\ Plain

SpecPersonal == InitPersonal /\ [][NextGenerate]_vars

\* generate_persona_summary called directly on corpora about the
\* relationship status: fragments with a direct pattern, with a contextual
\* pattern only, with none, and two that make a markdown link when joined
MaxStatusTexts == 2

StatusTextPool ==
  {[body |-> "I am married", subreddit |-> "pics"],
   [body |-> "my ex", subreddit |-> "pics"],
   [body |-> "Our anniversary", subreddit |-> "divorce"],
   [body |-> "[ I am married", subreddit |-> "pics"],
   [body |-> "](x) my ex", subreddit |-> "pics"],
   [body |-> "ok", subreddit |-> "dating"]}

StatusTextInputs ==
  {[comments |-> cs, posts |-> << >>] :
     cs \in SeqsUpTo(StatusTextPool, MaxStatusTexts)}

\* comments without a pattern, in relationship-themed and other subreddits
MaxStatusComments == 3

StatusSubreddits ==
  {"Divorce", "singleparents", "weddings", "dating", "relationship_advice",
   "pics"}

StatusSubredditInputs ==
  {[comments |-> [k \in DOMAIN subs |-> [body |-> "ok", subreddit |-> subs[k]]],
    posts |-> << >>] :
     subs \in SeqsUpTo(StatusSubreddits, MaxStatusComments)}

\* corpora about the occupation: a fragment with a job title, comments in
\* professional subreddits, a student phrase, and the two halves of one
MaxOccupationComments == 3

OccupationPool ==
  {[body |-> "My occupation is nurse practitioner !!!!", subreddit |-> "teachers"],
   [body |-> "grad student", subreddit |-> "nursing"],
   [body |-> "grad", subreddit |-> "pics"],
   [body |-> "student", subreddit |-> "pics"],
   [body |-> "ok", subreddit |-> "nursing"],
   [body |-> "ok", subreddit |-> "Teachers"]}

OccupationInputs ==
  {[comments |-> cs, posts |-> << >>] :
     cs \in SeqsUpTo(OccupationPool, MaxOccupationComments)}

\* corpora about birth years: years that give the ages 13, 12, 100 and 101
\* in the year of the clock, one in between, and a rejected year followed in
\* the same fragment by an age of the next pattern
MaxBirthComments == 2

BirthYears ==
  {ClockYear - 13, ClockYear - 12, ClockYear - 100, ClockYear - 101, 1990}

RejectedThenStated == "born in 2019 when I was 25"

BirthPool ==
  {[body |-> "born in " \o ToString(y), subreddit |-> "pics"] : y \in BirthYears}
  \cup {[body |-> RejectedThenStated, subreddit |-> "pics"]}

BirthInputs ==
  {[comments |-> cs, posts |-> << >>] :
     cs \in SeqsUpTo(BirthPool, MaxBirthComments)}

InfoInputs ==
  StatusTextInputs \cup StatusSubredditInputs \cup OccupationInputs
    \cup BirthInputs

InitInfo ==
  /\ entry = "generate_persona_summary" /\ pc = "generate"
  /\ username_or_url = "" /\ limit = DefaultLimit
  /\ feed_comments = << >> /\ feed_posts = << >>
  /\ current_year = ClockYear
  /\ username = Some("kojied")
  /\ \E in \in InfoInputs : comments = in.comments /\ posts = in.posts
  /\ avg_sentiment = Polarity(0)
  /\ personality_trait = ""
  /\ persona = None /\ printed = None /\ result = None
  /\ Plain

SpecInfo == InitInfo /\ [][NextGenerate]_vars

\* analyze_user on accounts that are active in many subreddits: the feeds
\* are the sublists of the first comments and posts of two fixed listings
\* of remarks, so that more than five subreddits, equal counts and
\* subreddits met in posts only all occur
MaxTopComments == 6

MaxTopPosts == 2

TopCommentSubs ==
  <<"pics", "rust", "pics", "Cooking", "news", "rust", "nursing", "python">>

TopPostSubs == <<"nursing", "python", "pics", "news">>

RECURSIVE Sublists(_)
Sublists(list) ==
  IF list = << >> THEN {<< >>}
  ELSE LET rest == Sublists(Tail(list))
       IN  rest \cup {<<Head(list)>> \o t : t \in rest}

TopComments ==
  {[k \in DOMAIN subs |-> [body |-> Remark, subreddit |-> subs[k]]] :
     subs \in Sublists(SubSeq(TopCommentSubs, 1, MaxTopComments))}

TopPosts ==
  {[k \in DOMAIN subs |->
      [title |-> Remark, selftext |-> "", subreddit |-> subs[k]]] :
     subs \in Sublists(SubSeq(TopPostSubs, 1, MaxTopPosts))}

InitTop ==
  /\ entry = "analyze_user" /\ pc = "start"
  /\ username_or_url = "kojied"
  /\ limit = DefaultLimit
  /\ feed_comments \in TopComments
  /\ feed_posts \in TopPosts
  /\ current_year = ClockYear
  /\ username = None /\ comments = << >> /\ posts = << >>
  /\ personality_trait = ""
  /\ Fresh
  /\ Plain

SpecTop == InitTop /\ [][Next]_vars

\* analyze_user on what a user may type for an account: every text of up to
\* MaxNameLen characters over the letters u, m, a, the slash and the space;
\* the account holds one comment and one post
MaxNameLen == 3

NameChars == {"u", "m", "a", "/", " "}

RECURSIVE Typed(_)
Typed(n) ==
  IF n = 0 THEN {""}
  ELSE Typed(n - 1) \cup {t \o c : t \in Typed(n - 1), c \in NameChars}

InitName ==
  /\ entry = "analyze_user" /\ pc = "start"
  /\ username_or_url \in Typed(MaxNameLen)
  /\ limit = DefaultLimit
  /\ feed_comments = <<FillerComment>>
  /\ feed_posts = <<FillerPost>>
  /\ current_year = ClockYear
  /\ username = None /\ comments = << >> /\ posts = << >>
  /\ personality_trait = ""
  /\ Fresh
  /\ Plain

SpecName == InitName /\ [][Next]_vars

\* main run on a command line, with the lines the user types afterwards;
\* the account "u/" has no name left once the prefix is stripped; the
\* Sheets account holds one spreadsheet, which --spreadsheet-id names
MaxTyped == 2

ArgvPool ==
  {<< >>, <<"Q">>, <<"u/">>, <<"--export">>, <<"u/", "--export", "--excel">>,
   <<"--spreadsheet-id", "1">>, <<"kojied", "--spreadsheet-id=1">>}

TypedPool == {"u/", " kojied "}

\* the spreadsheet the user made beforehand: the first of the account, so
\* that its ID is "1"
OwnSheet == [title |-> "Personas", values |-> << >>]

MainComment == [body |-> "I want to learn rust", subreddit |-> "rust"]

MainPost == [title |-> "My goal", selftext |-> "", subreddit |-> "rust"]

InitMain ==
  /\ entry = "analyze_user" /\ pc = "main"
  /\ username_or_url = "" /\ limit = DefaultLimit
  /\ feed_comments = <<MainComment>> /\ feed_posts = <<MainPost>>
  /\ current_year = ClockYear
  /\ username = None /\ comments = << >> /\ posts = << >>
  /\ personality_trait = ""
  /\ Fresh
  /\ export_to_sheets = FALSE
  /\ google_sheets_service \in {None, Some("service")}
  /\ spreadsheets = <<OwnSheet>>
  /\ requests = << >>
  /\ \E argv \in ArgvPool : \E typed \in SeqsUpTo(TypedPool, MaxTyped) :
       loop = [argv |-> argv, username |-> ParseArgs(argv).username,
               typed |-> typed, at |-> "ask", user_input |-> "",
               reports |-> << >>, files |-> << >>]

NextMain == MainAsk \/ Next \/ MainReport

SpecMain == InitMain /\ [][NextMain]_vars /\ WF_vars(MainReport)

\* analyze_user with and without the export asked for, on an analyzer with
\* and without a Sheets service
InitExport ==
  /\ entry = "analyze_user" /\ pc = "start"
  /\ username_or_url \in Inputs
  /\ limit = DefaultLimit
  /\ feed_comments \in SeqsUpTo(CommentPool, 1)
  /\ feed_posts \in SeqsUpTo(PostPool, 1)
  /\ current_year = ClockYear
  /\ username = None /\ comments = << >> /\ posts = << >>
  /\ personality_trait = ""
  /\ Fresh
  /\ export_to_sheets \in BOOLEAN
  /\ google_sheets_service \in {None, Some("service")}
  /\ spreadsheets = << >> /\ loop = None /\ requests = << >>

SpecExport == InitExport /\ [][Next]_vars

(***************************************************************************)
(* Properties                                                              *)
(***************************************************************************)
\* a call of the method has returned
Returned(method) == entry = method /\ pc = "done"

\* analyze_user has returned a record
Analysed == Returned("analyze_user") /\ result # None

\* C1: the record analyze_user returns carries the activity level of
\* total = number of comments + number of posts: "Highly active" exactly
\* when total > 200, "Active" exactly when 50 < total <= 200, "Casual"
\* exactly when total <= 50
C1_ActivityLevel ==
  Analysed =>
    LET total == result.total_comments + result.total_posts
    IN  /\ total = Len(comments) + Len(posts)
        /\ (result.activity_level = "Highly active") <=> (total > 200)
        /\ (result.activity_level = "Active") <=> (50 < total /\ total <= 200)
        /\ (result.activity_level = "Casual") <=> (total <= 50)

\* C1, the case: an account of exactly 200 items was analysed and is "Active"
C1_Witness ==
  /\ Analysed
  /\ result.total_comments + result.total_posts = 200
  /\ result.total_posts > 0
  /\ result.activity_level = "Active"

\* C2: on a corpus that is not empty determine_archetype returns the first
\* branch that matches, in the order q > 2a "The Inquirer", a > 2q "The
\* Helper", more than 5 distinct comment subreddits "The Explorer", else
\* "The Engaged Member", where q counts the comments with a '?' and a the
\* comments without one that have more than 10 words; neither the posts nor
\* the personality label have a part in it
C2_ArchetypeOrder ==
  (Returned("determine_archetype") /\ (comments # << >> \/ posts # << >>)) =>
    LET q == Cardinality({k \in DOMAIN comments : Contains(comments[k].body, "?")})
        a == Cardinality({k \in DOMAIN comments :
                            /\ ~Contains(comments[k].body, "?")
                            /\ WordCount(comments[k].body) > 10})
        d == Cardinality({comments[k].subreddit : k \in DOMAIN comments})
    IN  result = IF q > 2 * a THEN "The Inquirer"
                 ELSE IF a > 2 * q THEN "The Helper"
                 ELSE IF d > 5 THEN "The Explorer"
                 ELSE "The Engaged Member"

\* C2, the case: questions prevail in a corpus with posts that is spread
\* over more than 5 subreddits, and the result is "The Inquirer"
C2_Witness ==
  /\ Returned("determine_archetype")
  /\ posts # << >>
  /\ Cardinality({comments[k].subreddit : k \in DOMAIN comments}) > 5
  /\ \E k \in DOMAIN comments : ~Contains(comments[k].body, "?")
  /\ result = "The Inquirer"

\* C3: the persona of an empty corpus, as generate_persona_summary builds it
\* and as analyze_user returns it, has the archetype "Observer", the
\* activity level "Casual", "Not specified" for age, location, occupation
\* and relationship status, and in each narrative category the one sentinel
\* claim of the category, cited "N/A"
C3_EmptyCorpus ==
  (Analysed /\ comments = << >> /\ posts = << >>) =>
    \A r \in {persona, result} :
      /\ r.archetype = "Observer"
      /\ r.activity_level = "Casual"
      /\ r.age = "Not specified" /\ r.location = "Not specified"
      /\ r.occupation = "Not specified" /\ r.marriage_status = "Not specified"
      /\ r.motivations = << <<"No explicit motivations mentioned recently", "N/A">> >>
      /\ r.goals = << <<"Not explicitly mentioned in recent activity", "N/A">> >>
      /\ r.behaviors =
           << <<"Patterns not clearly identifiable from recent activity", "N/A">> >>
      /\ r.frustrations = << <<"No explicit frustrations mentioned recently", "N/A">> >>

\* C3, the case: analyze_user returned the record of an account whose
\* listings gave nothing, or failed
C3_Witness ==
  /\ Analysed
  /\ comments = << >> /\ posts = << >>
  /\ feed_comments # << >>
  /\ Len(result.goals) = 1

\* C4: the personality label is "Friendly and engaging" exactly when the
\* compound score is above 0.1, "Direct or critical" exactly when it is
\* below -0.1 and "Neutral or reserved" otherwise, the scores 0.1 and -0.1
\* included; polarity scores without a compound score count as 0 (scores in
\* units of 1/10000)
C4_PersonalityThresholds ==
  Returned("generate_persona_summary") =>
    LET s == IF "compound" \in DOMAIN avg_sentiment
             THEN avg_sentiment["compound"] ELSE 0
    IN  /\ (result.personality = "Friendly and engaging") <=> (s > 1000)
        /\ (result.personality = "Direct or critical") <=> (s < -1000)
        /\ (result.personality = "Neutral or reserved")
             <=> (-1000 <= s /\ s <= 1000)

\* C4, the case: the persona of the boundary score 0.1 is neutral
C4_Witness ==
  /\ Returned("generate_persona_summary")
  /\ avg_sentiment = Polarity(1000)
  /\ result.personality = "Neutral or reserved"

\* C5: the sentiment word and the sentiment indicator printed with the
\* persona use the thresholds of the personality label: positive (smiling)
\* exactly when the compound score is above 0.1, negative (worried) exactly
\* when it is below -0.1, neutral otherwise, so that word, indicator and
\* personality are always in the same bucket
C5_SameBuckets ==
  Returned("generate_persona_summary") =>
    LET s == IF "compound" \in DOMAIN avg_sentiment
             THEN avg_sentiment["compound"] ELSE 0
        bucket == IF s > 1000 THEN 1 ELSE IF s < -1000 THEN -1 ELSE 0
        of_word == [positive |-> 1, neutral |-> 0, negative |-> -1]
        of_emoji == [smiling |-> 1, neutral |-> 0, worried |-> -1]
        of_personality == [p \in PersonalityLabels |->
                             IF p = "Friendly and engaging" THEN 1
                             ELSE IF p = "Direct or critical" THEN -1 ELSE 0]
    IN  /\ of_word[printed.word] = bucket
        /\ of_emoji[printed.emoji] = bucket
        /\ of_personality[printed.personality] = bucket
        /\ of_personality[result.personality] = bucket

\* C6: the record analyze_user returns has the whole field set of the
\* persona record: username, age, location, occupation, relationship status,
\* archetype, the personality label, the sentiment score, the four
\* narrative lists, activity level, both totals and the top-subreddit table
C6_WholeFieldSet ==
  Analysed =>
    /\ {"username", "age", "location", "occupation", "marriage_status",
        "archetype", "personality", "motivations", "goals", "behaviors",
        "frustrations", "activity_level", "total_comments", "total_posts",
        "top_subreddits"} \subseteq DOMAIN result
    /\ result.personality \in PersonalityLabels
    /\ \E k \in {"sentiment", "sentiment_score", "compound", "avg_sentiment"} :
         k \in DOMAIN result

\* C7: each narrative list of the persona has 1 to 3 entries and is the
\* first three entries of what the extractor of its category returns for
\* the corpus
C7_FirstThree ==
  Returned("generate_persona_summary") =>
    \A category \in {"motivations", "goals", "behaviors", "frustrations"} :
      LET full == CASE category = "motivations" -> extract_motivations(comments, posts)
                    [] category = "goals" -> extract_goals(comments, posts)
                    [] category = "behaviors" -> extract_behaviors(comments, posts)
                    [] OTHER -> extract_frustrations(comments, posts)
          list == result[category]
      IN  /\ 1 <= Len(list) /\ Len(list) <= 3
          /\ Len(list) = IF Len(full) < 3 THEN Len(full) ELSE 3
          /\ \A n \in 1..Len(list) : list[n] = full[n]

\* C7, the case: more than three comments give a motivation, and they are
\* not the same claim; three motivations are in the persona
C7_Witness ==
  /\ Returned("generate_persona_summary")
  /\ Len(extract_motivations(comments, posts)) > 3
  /\ extract_motivations(comments, posts)[1] # extract_motivations(comments, posts)[4]
  /\ Len(result.motivations) = 3
  /\ Len(result.goals) = 1

\* what C8 says of the output of one extractor: one claim for each item
\* whose lowercased text holds a trigger, in the order of the items, cited
\* with the kind and the subreddit of the item; the sentinel alone if there
\* is no such item
ScanOutput(out, items, texts, triggers, kind, sentinel) ==
  LET idx == {k \in DOMAIN items :
                \E t \in DOMAIN triggers : Contains(Lower(texts[k]), triggers[t])}
  IN  /\ out # << >>
      /\ idx = {} => out = <<sentinel>> /\ sentinel[2] = "N/A"
      /\ idx # {} =>
           /\ Len(out) = Cardinality(idx)
           /\ \A k \in idx :
                out[Cardinality({j \in idx : j <= k})][2]
                  = kind \o " in r/" \o items[k].subreddit
      /\ \A n \in DOMAIN out :
           (out[n] = sentinel \/ out[n][2] = "N/A") => Len(out) = 1

\* C8: each narrative extractor returns one claim for each item it scans
\* whose lowercased text holds a trigger of the category, in item order,
\* cited "Comment in r/<subreddit>" ("Post in r/<subreddit>" for goals) with
\* the subreddit of the item; without such an item it returns the sentinel
\* claim cited "N/A" alone; the sentinel never stands beside a real claim
\* and the output is never empty
C8_OneClaimPerMatch ==
  Returned("extract_narrative") =>
    LET bodies == [k \in DOMAIN comments |-> comments[k].body]
        texts == [k \in DOMAIN posts |-> posts[k].title \o " " \o posts[k].selftext]
    IN  /\ ScanOutput(result.motivations, comments, bodies,
                      <<"want to", "hope to", "aspire to", "dream of", "goal is">>,
                      "Comment", NoMotivations)
        /\ ScanOutput(result.goals, posts, texts,
                      <<"goal", "objective", "aim", "target">>, "Post", NoGoals)
        /\ ScanOutput(result.behaviors, comments, bodies,
                      <<"i always", "i usually", "i often">>, "Comment", NoBehaviors)
        /\ ScanOutput(result.frustrations, comments, bodies,
                      <<"frustrat", "annoy", "bother", "problem", "issue">>,
                      "Comment", NoFrustrations)

\* C8, the case: two comments of different subreddits gave a motivation
\* each, a third gave none, and no post gave a goal
C8_Witness ==
  /\ Returned("extract_narrative")
  /\ Len(comments) = 3 /\ Len(result.motivations) = 2
  /\ result.motivations[1][2] # result.motivations[2][2]
  /\ posts # << >> /\ result.goals = <<NoGoals>>

C10_AgeField ==
  Returned("generate_persona_summary") =>
    LET fragments == [k \in 1..(Len(comments) + Len(posts)) |->
                        IF k <= Len(comments) THEN comments[k].body
                        ELSE PostText(posts[k - Len(comments)])]
    IN  /\ \/ result.age = "Not specified"
           \/ \E n \in 13..100 : result.age = ToString(n) \o " years old"
        /\ (\A k \in DOMAIN fragments :
              AgeInFragment(CleanContent(fragments[k]), current_year)
                = "Not specified")
             => result.age = "Not specified"

\* the fragments of the corpus: the comment bodies, then the post texts
Fragments ==
  [k \in 1..(Len(comments) + Len(posts)) |->
     IF k <= Len(comments) THEN comments[k].body
     ELSE PostText(posts[k - Len(comments)])]

\* C11: the age is resolved from the comment bodies followed by the post
\* texts, in this order, and the first fragment that mentions an accepted
\* age decides: the age of the persona is the one of that fragment,
\* whatever later fragments say, and "Not specified" without such a fragment
C11_FirstFragmentWins ==
  Returned("generate_persona_summary") =>
    LET age_in(k) == AgeInFragment(CleanContent(Fragments[k]), current_year)
        hits == {k \in DOMAIN Fragments : age_in(k) # "Not specified"}
    IN  result.age = IF hits = {} THEN "Not specified"
                     ELSE age_in(CHOOSE k \in hits : \A j \in hits : k <= j)

\* C12: fragments of fewer than 30 characters are skipped for the location
\* and the occupation: when every comment body and every post text is that
\* short, the location is "Not specified" and the occupation is "Not
\* specified" or what the subreddit mapping gives
C12_ShortFragmentsSkipped ==
  (/\ Returned("generate_persona_summary")
   /\ \A k \in DOMAIN Fragments : Len(Fragments[k]) < MinContentLen)
  => /\ result.location = NotSpecified
     /\ result.occupation \in {NotSpecified, OccupationFromSubreddits(comments)}

\* analyze_user is over and generate_persona_summary raised: the sentiment
\* was computed and no persona came back
GenerationRaised ==
  Returned("analyze_user") /\ avg_sentiment # None /\ persona = None

\* C13: when an extractor raises while the persona is generated, the
\* failure is caught and analyze_user still returns a record for the
\* account, with the default in the fields that could not be extracted
C13_ExtractorFailureCaught ==
  GenerationRaised =>
    /\ result # None
    /\ result.username = username[1]
    /\ \E k \in DOMAIN default_dict : result[k] = default_dict[k]

\* the comment listing failed on an account that has comments
CommentFetchFailed == feed_comments # << >> /\ comments = << >>

\* C14: analyze_user always returns, and what it returns is None or a
\* record with every key: whatever the input and whichever of the fetches,
\* the sentiment scoring and the generation failed, there is no record with
\* a key missing, and a call that did not get a persona returns None
C14_NoneOrWholeRecord ==
  /\ pc \in {"start", "comments", "posts", "sentiment", "generate",
             "assemble", "done"}
  /\ Returned("analyze_user") =>
       /\ result = None \/
          DOMAIN result =
            {"username", "age", "location", "occupation", "marriage_status",
             "archetype", "communication_style", "motivations", "goals",
             "behaviors", "frustrations", "activity_level", "top_subreddits",
             "total_comments", "total_posts"}
       /\ persona = None => result = None

\* analyze_user returned a record although the comment listing failed
C14_Witness ==
  /\ Returned("analyze_user") /\ result # None
  /\ CommentFetchFailed

\* what a listing of the account gives when it does not fail
Listing(feed, n) == SubSeq(feed, 1, Min(n, Len(feed)))

\* the name was resolved and the fetch of the comments is over
CommentsDone ==
  /\ entry = "analyze_user" /\ pc \notin {"start", "comments"}
  /\ username # None /\ username # Some("")

\* the fetch of the posts is over too
PostsDone == CommentsDone /\ pc # "posts"

\* C15: a fetch that fails, at whichever turn, gives the empty list and not
\* the items it had received; the other collection is what its own fetch
\* gives; the analysis goes on and, unless the scoring or the generation
\* fails, analyze_user returns a record over the two collections, which is
\* the persona of the empty corpus when both fetches failed
C15_FailedFetchIsEmpty ==
  /\ CommentsDone => comments \in {<< >>, Listing(feed_comments, limit)}
  /\ PostsDone =>
       posts \in {<< >>, Listing(feed_posts, limit \div PostsLimitDivisor)}
  /\ (PostsDone /\ pc = "done" /\ persona # None) =>
       /\ result # None
       /\ result.total_comments = Len(comments)
       /\ result.total_posts = Len(posts)
       /\ (comments = << >> /\ posts = << >>) =>
            /\ result.archetype = "Observer"
            /\ result.activity_level = "Casual"
            /\ \A k \in {"age", "location", "occupation", "marriage_status"} :
                 result[k] = NotSpecified
            /\ \A k \in {"motivations", "goals", "behaviors", "frustrations"} :
                 Len(result[k]) = 1 /\ result[k][1][2] = "N/A"
            /\ result.top_subreddits = << >>

\* analyze_user returned a record after the comment listing failed and the
\* post listing did not
C15_Witness ==
  /\ Analysed
  /\ CommentFetchFailed
  /\ posts # << >> /\ posts = feed_posts
  /\ result.total_comments = 0 /\ result.total_posts = Len(posts)

\* main has the result of a failed analysis in hand
FailedAnalysis ==
  loop # None /\ loop.at = "analysing" /\ pc = "done" /\ result = None

\* the last report of main is about the account it just processed
LastReport(message) ==
  /\ loop.reports # << >>
  /\ loop.reports[Len(loop.reports)] = <<loop.user_input, message>>

\* C16: in the loop of main an account whose analysis fails (analyze_user
\* returns None) is reported, once and for that account, and the loop turns
\* to the next account: the step that follows the failure leaves the loop
\* asking, with nothing else changed, and that step is taken
C16_FailureDoesNotEndLoop ==
  /\ [][FailedAnalysis =>
          /\ loop'.at = "ask"
          /\ loop'.reports = Append(loop.reports,
                                    <<loop.user_input, "No data to export.">>)
          /\ loop'.typed = loop.typed /\ loop'.files = loop.files
          /\ spreadsheets' = spreadsheets]_vars
  /\ FailedAnalysis ~> (loop.at = "ask" /\ LastReport("No data to export."))

\* the first account failed and main has processed a second one
C16_Witness ==
  /\ loop # None /\ Len(loop.reports) = 2
  /\ loop.reports[1][2] = "No data to export."
  /\ loop.reports[1][1] # loop.reports[2][1]

\* C17: generate_persona_summary is deterministic: the record of a corpus
\* and a sentiment score is the same in every run, whatever the year of the
\* run (the record is the one the run of the year ClockYear gives)
C17_SameInEveryYear ==
  Returned("generate_persona_summary") =>
    result = generate_persona_summary(username[1], comments, posts,
                                      avg_sentiment, ClockYear)

\* C18: for the one comment of the example scenario, in r/teaching and with
\* no posts, the record has the age "28 years old", the location "Texas",
\* the occupation "Teacher" and the one frustration whose snippet is the
\* lower-cased text with spaces for the punctuation, cited to the comment
C18_ExampleScenario ==
  (/\ Returned("generate_persona_summary")
   /\ comments = <<ExampleComment>> /\ posts = << >>)
  => /\ result.age = "28 years old"
     /\ result.location = "Texas"
     /\ result.occupation = "Teacher"
     /\ result.frustrations =
          << <<"Frustrated by: i m 28 years old and i live in texas i work as a teacher i m frustrated by long commutes...",
               "Comment in r/teaching">> >>

\* C19: analyze_user resolves the account name before it fetches: nothing
\* is asked of the client before extract_username has returned; the
\* comments are asked for first and the posts second, both under the
\* resolved name; and an input that resolves to no name (empty, or blank)
\* ends the call with None and with no listing asked for
C19_ResolvedBeforeFetch ==
  LET resolved == extract_username(username_or_url)
  IN  /\ pc = "start" =>
           requests = << >> /\ comments = << >> /\ posts = << >>
      /\ Len(requests) <= 2
      /\ \A k \in DOMAIN requests :
           /\ Truthy(resolved)
           /\ requests[k] = <<IF k = 1 THEN "comments" ELSE "posts", resolved[1]>>
      /\ (comments # << >> \/ pc \in {"posts", "sentiment"}) => Len(requests) >= 1
      /\ (posts # << >> \/ pc = "sentiment") => Len(requests) = 2
      /\ (pc # "start" /\ ~Truthy(resolved)) =>
           /\ pc = "done" /\ result = None
           /\ requests = << >> /\ comments = << >> /\ posts = << >>

\* analyze_user is over for a profile URL: both listings were asked for
\* under the name in the URL
C19_Witness ==
  /\ Returned("analyze_user")
  /\ username_or_url = "https://www.reddit.com/user/kojied/"
  /\ requests = << <<"comments", "kojied">>, <<"posts", "kojied">> >>

\* the export was asked for, the service is there, and the sheet was not
\* made or was left empty
SinkFailed ==
  /\ export_to_sheets /\ google_sheets_service # None
  /\ \A k \in DOMAIN spreadsheets : spreadsheets[k].values = << >>

\* C20: what analyze_user returns does not depend on the sink: whether the
\* export is not asked for, works, fails or has no service, a call whose
\* persona was generated returns the record of its corpus, name and
\* sentiment score, never None; and a sheet that was written holds the rows
\* of that record
C20_SinkIndependent ==
  (Returned("analyze_user") /\ persona # None) =>
    /\ result # None
    /\ result.username = username[1]
    /\ result.total_comments = Len(comments) /\ result.total_posts = Len(posts)
    /\ \A k \in DOMAIN default_dict \ {"communication_style", "top_subreddits"} :
         result[k] = persona[k]
    /\ result.communication_style = "Not specified"
    /\ result.top_subreddits = Get(persona, "top_subreddits", << >>)
    /\ Len(spreadsheets) <= 1
    /\ \A k \in DOMAIN spreadsheets :
         /\ export_to_sheets /\ google_sheets_service # None
         /\ spreadsheets[k].values \in {<< >>, ExportValues(username[1], result)}

\* analyze_user returned a record although the export it was asked for
\* failed
C20_Witness ==
  /\ Analysed
  /\ SinkFailed
  /\ comments # << >>

\* the label of the first direct pattern, and of the first contextual
\* pattern, that the k-th fragment matches
DirectLabel(k) ==
  FirstStatus(relationship_patterns, Lower(CleanContent(Fragments[k])))

ContextLabel(k) ==
  FirstStatus(context_patterns, Lower(CleanContent(Fragments[k])))

\* C21: the relationship status falls back in strict order: when some
\* fragment matches a direct pattern the status is the label of a direct
\* pattern matched by a fragment; a contextual label is given only when no
\* fragment matches a direct pattern; and the subreddits are consulted only
\* when no fragment matches a pattern of either kind
C21_StatusFallbackOrder ==
  Returned("generate_persona_summary") =>
    LET direct  == {k \in DOMAIN Fragments : DirectLabel(k) # NotSpecified}
        context == {k \in DOMAIN Fragments : ContextLabel(k) # NotSpecified}
    IN  IF direct # {}
        THEN result.marriage_status \in {DirectLabel(k) : k \in direct}
        ELSE IF context # {}
        THEN result.marriage_status \in {ContextLabel(k) : k \in context}
        ELSE result.marriage_status \in
               {NotSpecified, StatusFromSubreddits(comments)}

\* no fragment of the corpus matches a relationship pattern
NoStatusInText ==
  \A k \in DOMAIN Fragments :
     DirectLabel(k) = NotSpecified /\ ContextLabel(k) = NotSpecified

\* the subreddits the account commented in, in lower case
CommentedIn == {Lower(comments[k].subreddit) : k \in DOMAIN comments}

\* C22: when no text pattern gives the relationship status, the subreddits
\* commented in decide by a fixed precedence: divorce, then singleparents,
\* then marriage, weddingplanning or weddings, then relationships,
\* dating_advice or dating; only the set of subreddits matters, not the
\* order of the comments nor how many there are in each
C22_SubredditPrecedence ==
  (Returned("generate_persona_summary") /\ NoStatusInText) =>
    /\ "divorce" \in CommentedIn => result.marriage_status = "divorced/separated"
    /\ ("divorce" \notin CommentedIn /\ "singleparents" \in CommentedIn) =>
         result.marriage_status = "single parent"
    /\ (/\ CommentedIn \cap {"divorce", "singleparents"} = {}
        /\ CommentedIn \cap {"marriage", "weddingplanning", "weddings"} # {}) =>
         result.marriage_status = "married"
    /\ (/\ CommentedIn \cap {"divorce", "singleparents", "marriage",
                             "weddingplanning", "weddings"} = {}
        /\ CommentedIn \cap {"relationships", "dating_advice", "dating"} # {}) =>
         result.marriage_status = "in a relationship"

\* the account commented twice in a dating subreddit and then once in a
\* wedding subreddit, which decides
C22_Witness ==
  /\ Returned("generate_persona_summary") /\ NoStatusInText
  /\ Len(comments) = 3
  /\ comments[1].subreddit = "dating" /\ comments[2].subreddit = "dating"
  /\ comments[3].subreddit = "weddings"
  /\ result.marriage_status = "married"

\* C23: when no text pattern gives the relationship status and the account
\* commented in one of the relationship-themed subreddits, the status is
\* not "Not specified"
C23_MembershipGivesStatus ==
  (/\ Returned("generate_persona_summary") /\ NoStatusInText
   /\ CommentedIn \cap {"marriage", "relationships", "relationship_advice",
                        "dating_advice", "weddingplanning", "weddings",
                        "divorce", "singleparents", "dating"} # {})
  => result.marriage_status # NotSpecified

\* the occupation table's entry for a subreddit
Mapped(sub) ==
  sub_to_occupation[CHOOSE e \in DOMAIN sub_to_occupation :
                      sub_to_occupation[e][1] = sub][2]

\* C24: the occupation follows a strict chain: a fragment in which a text
\* pattern gives an occupation wins; when no fragment does, the professional
\* subreddit with the most comments (the first in comment order on a tie) is
\* mapped through the table; and when there is none either, the occupation
\* is "Student" exactly when some fragment contains a student phrase
C24_OccupationChain ==
  Returned("generate_persona_summary") =>
    LET text == {k \in DOMAIN Fragments :
                   OccupationInFragment(Fragments[k]) # NotSpecified}
        pro  == {k \in DOMAIN comments :
                   Lower(comments[k].subreddit) \in professional_subs}
        cnt(k) == Cardinality({j \in DOMAIN comments :
                     Lower(comments[j].subreddit) = Lower(comments[k].subreddit)})
        student == \E k \in DOMAIN Fragments : \E i \in DOMAIN student_indicators :
                      Contains(Lower(Fragments[k]), student_indicators[i])
    IN  IF text # {} THEN result.occupation # NotSpecified
        ELSE IF pro # {}
        THEN \E k \in pro :
               /\ \A j \in pro : cnt(j) <= cnt(k)
               /\ \A j \in pro : j < k => cnt(j) < cnt(k)
               /\ result.occupation = Mapped(Lower(comments[k].subreddit))
        ELSE result.occupation = IF student THEN "Student" ELSE NotSpecified

\* the year a fragment of the form "born in YYYY" names
BornIn(k) == ToInt(SubSeq(Fragments[k], 9, 12))

\* the corpus is made of fragments "born in YYYY" only
OnlyBirthYears ==
  /\ Fragments # << >>
  /\ \A k \in DOMAIN Fragments :
       Len(Fragments[k]) = 12 /\ SubSeq(Fragments[k], 1, 8) = "born in "

\* C25: a captured birth year Y with 1900 <= Y <= current year gives the age
\* current_year - Y when that is between 13 and 100; a year that would give
\* an age below 13 or above 100 is rejected without setting the age, and the
\* scan goes on with the next pattern and the next fragment: on a corpus of
\* birth years the age is that of the first year in range, "Not specified"
\* when none is, and a rejected year followed by "when I was 25" gives 25
C25_BirthYearAge ==
  Returned("generate_persona_summary") =>
    /\ OnlyBirthYears =>
         LET age(k) == current_year - BornIn(k)
             ok == {k \in DOMAIN Fragments :
                      /\ 1900 <= BornIn(k) /\ BornIn(k) <= current_year
                      /\ 13 <= age(k) /\ age(k) <= 100}
         IN  result.age =
               IF ok = {} THEN "Not specified"
               ELSE ToString(age(CHOOSE k \in ok : \A j \in ok : k <= j))
                      \o " years old"
    /\ (Len(Fragments) = 1 /\ Fragments[1] = RejectedThenStated)
         => result.age = "25 years old"

\* a rejected birth year comes first and an accepted one follows: the age
\* is that of the second fragment
C25_Witness ==
  /\ Returned("generate_persona_summary")
  /\ OnlyBirthYears /\ Len(Fragments) = 2
  /\ current_year - BornIn(1) < 13
  /\ current_year - BornIn(2) = 100
  /\ result.age = "100 years old"

\* the subreddits of the retrieved comments and posts, and the number of
\* comments plus posts in one of them
ActiveIn ==
  {comments[k].subreddit : k \in DOMAIN comments}
    \cup {posts[k].subreddit : k \in DOMAIN posts}

Interactions(sub) ==
  Cardinality({k \in DOMAIN comments : comments[k].subreddit = sub})
    + Cardinality({k \in DOMAIN posts : posts[k].subreddit = sub})

\* C26: the table of the top subreddits in the record of analyze_user lists
\* at most 5 distinct subreddits (all of them when there are fewer), each
\* with its number of comments plus posts, in order of non-increasing count,
\* and no subreddit left out has a strictly greater count than a listed
\* one; the list of an empty corpus is empty
C26_TopSubreddits ==
  (Returned("analyze_user") /\ result # None) =>
    LET top == result.top_subreddits
    IN  /\ Len(top) = Min(5, Cardinality(ActiveIn))
        /\ \A i \in DOMAIN top :
             /\ top[i].subreddit \in ActiveIn
             /\ top[i].count = Interactions(top[i].subreddit)
             /\ \A j \in DOMAIN top :
                  /\ i < j => top[i].count >= top[j].count
                  /\ i # j => top[i].subreddit # top[j].subreddit
             /\ \A sub \in ActiveIn :
                  (\A j \in DOMAIN top : top[j].subreddit # sub)
                    => Interactions(sub) <= top[i].count
        /\ (comments = << >> /\ posts = << >>) => top = << >>

\* an account active in six subreddits, one of them in posts only, with two
\* subreddits of two interactions: five of the six are listed
C26_Witness ==
  /\ Returned("analyze_user") /\ result # None
  /\ Cardinality(ActiveIn) = 6
  /\ Len(result.top_subreddits) = 5
  /\ result.top_subreddits[2].count = 2
  /\ result.top_subreddits[5].count = 1
  /\ \E k \in DOMAIN posts :
       \A j \in DOMAIN comments : comments[j].subreddit # posts[k].subreddit

\* C27: a bare username (after trimming it contains none of '/', '.', ':')
\* is returned by extract_username as the trimmed input, unchanged, and
\* "u/NAME" gives exactly NAME: the one prefix "u/" is removed and no
\* further character
C27_UsernameUnchanged ==
  (entry = "analyze_user" /\ pc # "start") =>
    LET t == Strip(username_or_url)
    IN  /\ (t # "" /\ \A c \in {"/", ".", ":"} : ~Contains(t, c))
             => username = Some(t)
        /\ (Len(t) > 2 /\ SubSeq(t, 1, 2) = "u/")
             => username = Some(SubSeq(t, 3, Len(t)))

\* main has the record of a successful analysis in hand
SuccessInHand ==
  loop # None /\ loop.at = "analysing" /\ pc = "done" /\ result # None

\* the spreadsheet --spreadsheet-id names is one of the Sheets account
SuppliedSheet ==
  /\ Truthy(ParseArgs(loop.argv).spreadsheet_id)
  /\ \E k \in DOMAIN spreadsheets :
       ToString(k) = ParseArgs(loop.argv).spreadsheet_id[1]

\* C28: when a spreadsheet ID is supplied to export_to_google_sheets, as
\* main does for --spreadsheet-id, no new spreadsheet is created, and an
\* export that works writes the persona to the spreadsheet of that ID and
\* returns the URL of that spreadsheet
C28_SuppliedSpreadsheetWritten ==
  [][(SuccessInHand /\ google_sheets_service # None /\ SuppliedSheet) =>
       LET id == ParseArgs(loop.argv).spreadsheet_id[1]
           k  == CHOOSE j \in DOMAIN spreadsheets : ToString(j) = id
           url == "https://docs.google.com/spreadsheets/d/" \o id \o "/edit"
       IN  /\ Len(spreadsheets') = Len(spreadsheets)
           /\ loop'.reports[Len(loop'.reports)][2] \notin {NoCsvExport, NoCsvOption} =>
                /\ spreadsheets'[k].values = ExportValues(loop.user_input, result)
                /\ loop'.reports[Len(loop'.reports)] =
                     <<loop.user_input, "Data exported to Google Sheets: " \o url>>]_vars

\* main was started without a username and without options
Interactive == loop # None /\ loop.argv = << >>

\* C29: in interactive mode the loop of main ends only on q, on an empty
\* line or on an interrupt of the prompt, and after every account that was
\* analysed and exported to a local file the loop prompts for the next one
C29_InteractiveLoopGoesOn ==
  /\ [][(/\ Interactive /\ SuccessInHand
          /\ Len(loop'.files) = Len(loop.files) + 1
          /\ loop'.files[Len(loop'.files)][2] # "failed")
         => loop'.at = "ask"]_vars
  /\ []((Interactive /\ loop.at = "ended")
          => (loop.user_input = "" \/ Lower(loop.user_input) = "q"))

====
